---- MODULE Spec2Model ----
(***************************************************************************)
(* ParlCards: the throttled API client (app/api/client.py), the           *)
(* background warmup orchestrator (app/cache/warmup.py) and the standalone *)
(* warmup script (scripts/warmup.py) with the fetchers and metric builders *)
(* they drive, as state machines.                                          *)
(*                                                                         *)
(* Time is counted in whole seconds.  asyncio is a cooperative scheduler:  *)
(* the code between two awaits runs as one step, so every action below     *)
(* spans the code from one await to the next.  A sleeping task resumes at  *)
(* its deadline; callers and responses arrive at the instants the event    *)
(* loop is running (the current instant or a timer's deadline).            *)
(***************************************************************************)
EXTENDS Integers, Sequences, FiniteSets, TLC

\* ---------------------------------------------------------------- client
\* Program constants of the client.
MaxRetries == 4
MinDelaySeconds == 1
WindowSeconds == 60
RetryAfterDefault == 60
BackoffBase == 5

\* settings.rate_limit_per_minute is a configuration value (default 60,
\* overridable from the environment); the client is run here with a small
\* cap so that a full window is reached within the clock bound.
RateLimitPerMinute == 2

\* Bounds of the client model: get() calls per call path, and the last
\* instant a timer may fire.
MaxGets == 2
MaxClock == 70

VARIABLES
    clock,               \* time.monotonic(), in seconds
    request_timestamps,  \* ThrottledAPIClient._request_timestamps (deque)
    last_request_time,   \* ThrottledAPIClient._last_request_time
    task                 \* per concurrent caller: its position inside get()

VARIABLES
    politicians,   \* the entity list the remote source serves (slugs, in order)
    cache,         \* cache record per key: "absent", "fresh" or "expired"
    status_file,   \* cache/meta/warmup_status.json
    completed,     \* background_warmup: completed (in memory)
    failed,        \* background_warmup: failed (in memory)
    pc,            \* the stage the warmup task is in
    idx,           \* entities the current loop has gone through
    remaining,     \* background_warmup: remaining
    table,         \* build_rankings_table: all_metrics / failed (slugs)
    loaded,        \* the progress record the run loaded at its start
    hist,          \* what the current run has done so far
    net,           \* requests the current run has dispatched
    budget         \* runs, network failures and expiries still allowed

VARIABLES
    files,         \* content of the cache record file per key
    calls,         \* per caller: the fetcher or CacheEntry call it is in
    life           \* lifespan: "serving", "stopping" or "closed" (pool closed)

VARIABLES
    details,       \* fetch_vote_details_batch: the fetch_one coroutines
    pager,         \* ThrottledAPIClient.paginate: its locals
    lookup,        \* fetch_politician_detail and the handler that called it
    metric,        \* a call of one of the metrics functions
    remote         \* the remote source: the votes of the session so far

clientVars == <<clock, request_timestamps, last_request_time, task>>

cacheVars == <<files, calls, life>>

toolVars == <<details, pager, lookup, metric, remote>>

warmVars == <<politicians, cache, status_file, completed, failed, pc, idx,
              remaining, table, loaded, hist, net, budget>>

vars == <<clock, request_timestamps, last_request_time, task,
          politicians, cache, status_file, completed, failed, pc, idx,
          remaining, table, loaded, hist, net, budget,
          files, calls, life,
          details, pager, lookup, metric, remote>>

\* The call paths that share the one client instance: the warmup task and
\* the request-serving handlers (app.state.client).
Callers == {"warmup", "serving"}

\* HTTP outcomes of one request as get() distinguishes them.
Responses == {"ok", "429", "5xx", "timeout", "4xx"}

\* Retry-After header of a 429 response: absent (<<>>), a number of seconds
\* (<<n>>), or an HTTP-date (<<day, second>>), the two forms HTTP gives it.
HttpDate == <<1, 0>>
RetryAfterHeaders == {<<>>, <<2>>, HttpDate}

IdleTask ==
    [pc |-> "idle", attempt |-> 0, wake |-> 0, gets |-> 0, sent |-> 0, last |-> "none",
     header |-> <<>>]

\* while self._request_timestamps and now - self._request_timestamps[0] > 60:
\*     self._request_timestamps.popleft()
RECURSIVE Evict(_, _)
Evict(ts, now) ==
    IF Len(ts) > 0 /\ now - Head(ts) > WindowSeconds
    THEN Evict(Tail(ts), now)
    ELSE ts

\* if len(self._request_timestamps) >= settings.rate_limit_per_minute
AtRateLimit(ts) == Len(ts) >= RateLimitPerMinute

\* since_last < settings.min_delay_seconds
TooSoon(now) == now - last_request_time < MinDelaySeconds

\* The caller records its dispatch and goes on to the HTTP request
\* (lines 60-61, then line 70).
Dispatch(c, ts) ==
    /\ request_timestamps' = Append(ts, clock)
    /\ last_request_time' = clock
    /\ task' = [task EXCEPT ![c].pc = "http", ![c].sent = @ + 1]

\* Lines 46-61 entered at time `clock` without a further suspension, or
\* suspended in the rate-limit sleep of line 55.
WindowPart(c) ==
    LET ts == Evict(request_timestamps, clock) IN
    IF AtRateLimit(ts)
    THEN LET wait_until == Head(ts) + WindowSeconds
             sleep_for == wait_until - clock
         IN IF sleep_for > 0
            THEN /\ request_timestamps' = ts
                 /\ task' = [task EXCEPT ![c].pc = "sleep_window",
                                         ![c].wake = wait_until]
                 /\ UNCHANGED last_request_time
            ELSE Dispatch(c, Evict(ts, clock))
    ELSE Dispatch(c, ts)

\* A caller enters get(): attempt 0, about to call _throttle.
StartGet(c) ==
    /\ task[c].pc \in {"idle", "returned", "raised"}
    /\ task[c].gets < MaxGets
    /\ task' = [task EXCEPT ![c] = [IdleTask EXCEPT !.pc = "throttle",
                                                    !.gets = task[c].gets + 1]]
    /\ UNCHANGED <<clock, request_timestamps, last_request_time>>
    /\ UNCHANGED <<warmVars, cacheVars, toolVars>>

\* _throttle from its first line to its first await (or to its end).
ThrottleEnter(c) ==
    /\ task[c].pc = "throttle"
    /\ IF TooSoon(clock)
       THEN /\ task' = [task EXCEPT ![c].pc = "sleep_delay",
                          ![c].wake = clock + (MinDelaySeconds - (clock - last_request_time))]
            /\ UNCHANGED <<request_timestamps, last_request_time>>
       ELSE WindowPart(c)
    /\ UNCHANGED clock
    /\ UNCHANGED <<warmVars, cacheVars, toolVars>>

\* _throttle resumes after the min-delay sleep of line 43.
ThrottleAfterDelay(c) ==
    /\ task[c].pc = "sleep_delay"
    /\ clock >= task[c].wake
    /\ WindowPart(c)
    /\ UNCHANGED clock
    /\ UNCHANGED <<warmVars, cacheVars, toolVars>>

\* _throttle resumes after the rate-limit sleep of line 55.
ThrottleAfterWindow(c) ==
    /\ task[c].pc = "sleep_window"
    /\ clock >= task[c].wake
    /\ Dispatch(c, Evict(request_timestamps, clock))
    /\ UNCHANGED clock
    /\ UNCHANGED <<warmVars, cacheVars, toolVars>>

\* The sleep get() asks for after a retryable failure.
RetryAfterSeconds(h) == IF h = <<>> THEN RetryAfterDefault ELSE h[1]

\* int(response.headers.get("Retry-After", 60)) returns: the text is a number.
IntParses(h) == Len(h) <= 1
RECURSIVE Pow2(_)
Pow2(n) == IF n = 0 THEN 1 ELSE 2 * Pow2(n - 1)
ServerErrorBackoff(attempt) == BackoffBase * Pow2(attempt)
TimeoutBackoff(attempt) == BackoffBase * (attempt + 1)

LastAttemptOffByOne(attempt) == attempt = MaxRetries

\* range(max_retries): the attempt index is the last one of the loop.
LastAttempt(attempt) == attempt = MaxRetries - 1

\* The response of the request in flight arrives (lines 70-88).
Respond(c, r, h) ==
    /\ task[c].pc = "http"
    /\ CASE r = "ok" ->
              task' = [task EXCEPT ![c].pc = "returned", ![c].last = r]
         [] r = "429" ->
              IF IntParses(h)
              THEN task' = [task EXCEPT ![c].pc = "backoff", ![c].last = r,
                                        ![c].header = h,
                                        ![c].wake = clock + RetryAfterSeconds(h)]
              ELSE task' = [task EXCEPT ![c].pc = "raised", ![c].last = r,
                                        ![c].header = h]
         [] r = "5xx" ->
              task' = [task EXCEPT ![c].pc = "backoff", ![c].last = r,
                                   ![c].wake = clock + ServerErrorBackoff(task[c].attempt)]
         [] r = "timeout" ->
              IF LastAttempt(task[c].attempt)
              THEN task' = [task EXCEPT ![c].pc = "raised", ![c].last = r]
              ELSE task' = [task EXCEPT ![c].pc = "backoff", ![c].last = r,
                                             ![c].wake = clock + TimeoutBackoff(task[c].attempt)]
         [] OTHER ->
              task' = [task EXCEPT ![c].pc = "raised", ![c].last = r]
    /\ UNCHANGED <<clock, request_timestamps, last_request_time>>
    /\ UNCHANGED <<warmVars, cacheVars, toolVars>>

\* The backoff sleep ends: the for loop takes its next attempt, or is
\* exhausted and line 90 raises.
NextAttempt(c) ==
    /\ task[c].pc = "backoff"
    /\ clock >= task[c].wake
    /\ IF LastAttempt(task[c].attempt)
       THEN task' = [task EXCEPT ![c].pc = "raised", ![c].header = <<>>]
       ELSE task' = [task EXCEPT ![c].pc = "throttle", ![c].attempt = @ + 1,
                                 ![c].header = <<>>]
    /\ UNCHANGED <<clock, request_timestamps, last_request_time>>
    /\ UNCHANGED <<warmVars, cacheVars, toolVars>>

\* A task suspended in asyncio.sleep.
Sleeping(c) == task[c].pc \in {"sleep_delay", "sleep_window", "backoff"}

\* A task the event loop can resume now.
Runnable(c) ==
    \/ task[c].pc = "throttle"
    \/ Sleeping(c) /\ clock >= task[c].wake

\* The earliest deadline among the sleeping tasks.
NextDeadline ==
    LET ds == {task[c].wake : c \in {x \in Callers : Sleeping(x)}}
    IN CHOOSE d \in ds : \A e \in ds : d <= e

\* No task is ready to run: the event loop waits for the next timer.
Tick ==
    /\ \E c \in Callers : Sleeping(c)
    /\ \A c \in Callers : ~Runnable(c)
    /\ NextDeadline <= MaxClock
    /\ clock' = NextDeadline
    /\ UNCHANGED <<request_timestamps, last_request_time, task>>
    /\ UNCHANGED <<warmVars, cacheVars, toolVars>>

\* ----------------------------------------------------------- orchestrator
\* if i % 10 == 0: save_warmup_status(completed, failed)
SaveEvery == 10

\* Bounds of the orchestrator model: entities in the list, entities in the
\* long list of the batch runs, runs of the task, failing network fetches
\* and cache expiries.
NumSlugs == 2
BatchSlugs == 11
MaxRuns == 2
MaxFailures == 1
MaxExpiries == 1

Range(q) == {q[i] : i \in DOMAIN q}
Max(a, b) == IF a >= b THEN a ELSE b

\* Cache keys: <<kind, slug>>, slug 0 for the records shared by all entities.
\*   list     raw/politicians/list.json
\*   votes    raw/votes/session_{session}_all.json
\*   detail   raw/votes/detail_{session}_{n}.json (the session's one vote)
\*   rankings computed/rankings/all_metrics_{session}.json
\*   ballots  raw/ballots/{slug}_{session}.json
\*   summary  raw/speeches/{slug}_{session}_summary.json
\*   speeches raw/speeches/{slug}_{session}.json
\*   bills    raw/bills/{slug}_{session}.json
\*   card     computed/politicians/{slug}/sessions/{session}.json
SharedKinds == {"list", "votes", "detail", "rankings"}
EntityKinds == {"ballots", "summary", "speeches", "bills", "card"}
CacheKeys(list) == (SharedKinds \X {0}) \cup (EntityKinds \X Range(list))

\* Records written with a TTL of hours or days; vote details, rankings and
\* cards are written with the 10-year TTL.
ExpiringKinds == {"list", "votes", "ballots", "summary", "bills"}

\* The record a network fetch of a resource writes.
RecordOf(res) == IF res = "speeches" THEN "summary" ELSE res

\* CacheEntry.read(): a payload only from a record that has not expired.
ReadHit(k) == cache[k] = "fresh"
\* CacheEntry.read_stale(): a payload from any readable record.
ReadStaleHit(k) == cache[k] # "absent"

\* The party of an entity as the remote list gives it.
Party(s) == IF s % 2 = 0 THEN "Independent" ELSE "Liberal"
\* str.lower() on the party names that occur.
Lower(party) ==
    CASE party = "Independent" -> "independent"
      [] party = "INDEPENDENT" -> "independent"
      [] party = "Ind." -> "ind."
      [] party = "Liberal" -> "liberal"
      [] OTHER -> party

UnaffiliatedOnlyIfEmpty(party) == party = ""

\* if not politician_party or politician_party.lower() in ("independent", "ind.")
Unaffiliated(party) == party = "" \/ Lower(party) \in {"independent", "ind."}

\* rankings_complete: bool = False
DefaultRankingsCompleteTrue == TRUE
DefaultRankingsComplete == FALSE

SavedStatusKeepingFlag(comp, fl, rc) ==
    [exists |-> TRUE, content |-> "json", completed_slugs |-> comp, failed_slugs |-> fl,
     rankings_complete |-> rc \/ status_file.rankings_complete]

\* save_warmup_status: the file's new content.
SavedStatus(comp, fl, rc) ==
    [exists |-> TRUE, content |-> "json", completed_slugs |-> comp, failed_slugs |-> fl,
     rankings_complete |-> rc]
NoStatusFile ==
    [exists |-> FALSE, content |-> "none", completed_slugs |-> {}, failed_slugs |-> {},
     rankings_complete |-> FALSE]

\* A progress file whose content is not the JSON text of a save: cut short
\* by a crash in the middle of write_text ("truncated"), or a file that
\* read_text cannot read or decode ("unreadable").  It records nothing.
DamagedForms == {"truncated", "unreadable"}
DamagedStatusFile(form) ==
    [exists |-> TRUE, content |-> form, completed_slugs |-> {}, failed_slugs |-> {},
     rankings_complete |-> FALSE]

\* json.loads(STATUS_FILE.read_text(encoding="utf-8")) returns.
Parses(f) == f.content = "json"

SwallowedNever == FALSE

\* except Exception: pass
Swallowed == TRUE

\* The exception of the read leaves load_warmup_status / load_progress.
LoadRaises(f) == f.exists /\ ~Parses(f) /\ ~Swallowed

LoadWarmupStatusForgettingFailed(f) ==
    IF f.exists /\ Parses(f)
    THEN [completed_slugs |-> f.completed_slugs, failed_slugs |-> {},
          rankings_complete |-> f.rankings_complete]
    ELSE [completed_slugs |-> {}, failed_slugs |-> {}, rankings_complete |-> FALSE]

\* load_warmup_status
LoadWarmupStatus(f) ==
    IF f.exists /\ Parses(f)
    THEN [completed_slugs |-> f.completed_slugs, failed_slugs |-> f.failed_slugs,
          rankings_complete |-> f.rankings_complete]
    ELSE [completed_slugs |-> {}, failed_slugs |-> {}, rankings_complete |-> FALSE]

RemainingIgnoringFailed(list, comp, fl) == SelectSeq(list, LAMBDA s : s \notin comp)

\* remaining = [p for p in politicians if slug not in completed and slug not in failed]
Remaining(list, comp, fl) ==
    SelectSeq(list, LAMBDA s : s \notin comp /\ s \notin fl)

SaveDueFirstOnly(i) == i = 0

\* if i % 10 == 0
SaveDue(i) == i % SaveEvery = 0

CompletedAfterAlways(comp, s, ok) == comp \cup {s}

\* completed.add(slug) when the gather returned
CompletedAfter(comp, s, ok) == IF ok THEN comp \cup {s} ELSE comp
\* failed.add(slug) when the gather raised
FailedAfter(fl, s, ok) == IF ok THEN fl ELSE fl \cup {s}

\* Resources whose fetcher goes to the network in the per-entity pass
\* (fetch_politician_ballots, fetch_politician_speeches, fetch_sponsored_bills).
PassNeeds(s) ==
    {r \in {"ballots", "speeches", "bills"} : ~ReadHit(<<RecordOf(r), s>>)}

\* fetch_speech_count answers from the stale full speech record and
\* backfills the summary.
SpeechBackfill(s) == ~ReadHit(<<"summary", s>>) /\ ReadStaleHit(<<"speeches", s>>)

\* Resources whose fetcher goes to the network in compute_single_mp_metrics
\* (ballots with stale_ok=True, fetch_speech_count, fetch_sponsored_bills).
MetricNeeds(s) ==
    {r \in {"ballots", "speeches", "bills"} :
        CASE r = "ballots" -> ~ReadStaleHit(<<"ballots", s>>)
          [] r = "speeches" -> ~ReadHit(<<"summary", s>>) /\ ~SpeechBackfill(s)
          [] OTHER -> ~ReadHit(<<"bills", s>>)}

\* compute_party_loyalty asks fetch_vote_details_batch for the votes of the
\* entity's ballots; fetch_vote_detail goes to the network on a miss.
DetailNeeded(s) == ~Unaffiliated(Party(s)) /\ ~ReadHit(<<"detail", 0>>)

\* The cache after the fetchers of entity s wrote the records of `written`.
CacheWrite(c, s, written) ==
    [k \in DOMAIN c |->
        IF k[2] = s /\ k[1] \in {RecordOf(r) : r \in written} THEN "fresh" ELSE c[k]]

Requests(stage, s, resources) == {<<stage, r, s>> : r \in resources}

\* The entities with a card file of the session in cache c.
CardsIn(c) == {k[2] : k \in {k \in DOMAIN c : k[1] = "card" /\ c[k] # "absent"}}

\* History of the current run: what it has written and raised so far, the
\* flag the progress file held and the card files there were when it
\* started, the cards it has written.
NewHist ==
    [table_written |-> FALSE, cards_finished |-> FALSE, true_written |-> FALSE,
     flag_before |-> status_file.rankings_complete,
     raised |-> {}, peak_unsaved |-> 0,
     cards_before |-> CardsIn(cache), cards |-> {}]

CardsKept(c) == c

\* The session's card files are deleted: by the task after the shared
\* fetches (cache/warmup.py lines 81-90), by the script once the table is
\* built (scripts/warmup.py lines 203-211).
CardsDeleted(c) == [k \in DOMAIN c |-> IF k[1] = "card" THEN "absent" ELSE c[k]]
\* all_metrics and failed of build_rankings_table (the slugs of the
\* records), and the counts of the table once it is written.
EmptyTable == [metrics |-> <<>>, failed_slugs |-> <<>>, total_mps |-> 0, computed_mps |-> 0]

TableAfterDroppingFailed(t, s, ok) ==
    IF ok THEN [t EXCEPT !.metrics = Append(@, s)] ELSE t

\* if metrics: all_metrics.append(metrics)  else: failed.append(slug)
TableAfter(t, s, ok) ==
    IF ok
    THEN [t EXCEPT !.metrics = Append(@, s)]
    ELSE [t EXCEPT !.failed_slugs = Append(@, s)]

\* The table dict of lines 149-155.
TableDict(t, list) ==
    [t EXCEPT !.total_mps = Len(list), !.computed_mps = Len(t.metrics)]

Running == pc \in {"shared", "pass", "rank_shared", "rank", "cards"}
ScriptRunning == pc \in {"s_shared", "s_pass", "s_rank_shared", "s_rank", "s_cards"}
\* No run is in progress.
Stopped ==
    {"idle", "complete", "failed_run", "cancelled",
     "s_done", "s_crashed", "s_interrupted", "load_failed"}

\* background_warmup starts: lines 64-71.  An exception of
\* load_warmup_status would leave the task before its try block
\* ("load_failed").
StartRun ==
    /\ pc \in Stopped
    /\ budget.runs > 0
    /\ LET st == LoadWarmupStatus(status_file)
       IN /\ completed' = st.completed_slugs
          /\ failed' = st.failed_slugs
          /\ loaded' = st
    /\ pc' = IF LoadRaises(status_file) THEN "load_failed" ELSE "shared"
    /\ idx' = 0
    /\ remaining' = <<>>
    /\ table' = EmptyTable
    /\ hist' = NewHist
    /\ net' = {}
    /\ budget' = [budget EXCEPT !.runs = @ - 1]
    /\ UNCHANGED <<politicians, cache, status_file>>
    /\ UNCHANGED <<clientVars, cacheVars, toolVars>>

\* except Exception: save_warmup_status(completed, failed)   (lines 148-150)
Handler ==
    /\ status_file' = SavedStatus(completed, failed, DefaultRankingsComplete)
    /\ hist' = [hist EXCEPT !.true_written = @ \/ DefaultRankingsComplete]
    /\ pc' = "failed_run"

\* fetch_politician_list then fetch_session_votes, each from the cache when
\* fresh; `bad` is the resource whose network fetch fails ("none": neither).
\* The list is fetched first, the votes only when the list was obtained.
SharedNeeds == {r \in {"list", "votes"} : ~ReadHit(<<r, 0>>)}
SharedAttempted(bad) ==
    IF bad = "list" THEN {"list"} ELSE SharedNeeds
SharedCache(bad) ==
    [k \in DOMAIN cache |->
        IF k[2] = 0 /\ k[1] \in SharedAttempted(bad) \ {bad} THEN "fresh" ELSE cache[k]]

\* Lines 75-97: the shared data, the card files of the session deleted, the
\* remaining list.
FetchShared ==
    /\ pc = "shared"
    /\ \E bad \in SharedNeeds \cup {"none"} :
        /\ bad # "none" => budget.fail > 0
        /\ net' = net \cup Requests("shared", 0, SharedAttempted(bad))
        /\ IF bad = "none"
           THEN /\ cache' = CardsDeleted(SharedCache(bad))
                /\ remaining' = Remaining(politicians, completed, failed)
                /\ pc' = IF remaining' = <<>> THEN "rank_shared" ELSE "pass"
                /\ UNCHANGED <<status_file, budget, hist>>
           ELSE /\ cache' = SharedCache(bad)
                /\ Handler
                /\ budget' = [budget EXCEPT !.fail = @ - 1]
                /\ UNCHANGED remaining
    /\ idx' = 0
    /\ UNCHANGED <<politicians, completed, failed, table, loaded>>
    /\ UNCHANGED <<clientVars, cacheVars, toolVars>>

\* One iteration of the per-entity loop, lines 99-116: the gather of the
\* three fetchers (F: the resources whose network fetch fails), the entity
\* recorded, the progress file written when due.
PassEntity ==
    /\ pc = "pass"
    /\ idx < Len(remaining)
    /\ LET s == remaining[idx + 1]
           needs == PassNeeds(s)
       IN \E F \in SUBSET needs :
            /\ Cardinality(F) <= budget.fail
            /\ LET ok == F = {}
                   comp == CompletedAfter(completed, s, ok)
                   fl == FailedAfter(failed, s, ok)
                   unsaved == (comp \cup fl) \
                              (status_file.completed_slugs \cup status_file.failed_slugs)
               IN /\ completed' = comp
                  /\ failed' = fl
                  /\ cache' = CacheWrite(cache, s, needs \ F)
                  /\ net' = net \cup Requests("pass", s, needs)
                  /\ status_file' = IF SaveDue(idx)
                                    THEN SavedStatus(comp, fl, DefaultRankingsComplete)
                                    ELSE status_file
                  /\ hist' = [hist EXCEPT
                                !.raised = IF ok THEN @ ELSE @ \cup {s},
                                !.peak_unsaved = Max(@, Cardinality(unsaved)),
                                !.true_written =
                                    @ \/ (SaveDue(idx) /\ DefaultRankingsComplete)]
                  /\ budget' = [budget EXCEPT !.fail = @ - Cardinality(F)]
    /\ idx' = idx + 1
    /\ pc' = IF idx + 1 = Len(remaining) THEN "rank_shared" ELSE "pass"
    /\ UNCHANGED <<politicians, remaining, table, loaded>>
    /\ UNCHANGED <<clientVars, cacheVars, toolVars>>

\* An exception leaves main() of the standalone script: only
\* KeyboardInterrupt is caught, nothing is saved.
Crash ==
    /\ pc' = "s_crashed"
    /\ UNCHANGED <<status_file, hist>>

\* build_rankings_table, lines 129-130: the list and the session votes again.
\* `script`: called by the standalone script, else by background_warmup.
RankSharedIn(here, next, script) ==
    /\ pc = here
    /\ \E bad \in SharedNeeds \cup {"none"} :
        /\ bad # "none" => budget.fail > 0
        /\ net' = net \cup Requests("rank", 0, SharedAttempted(bad))
        /\ cache' = SharedCache(bad)
        /\ IF bad = "none"
           THEN /\ pc' = next
                /\ UNCHANGED <<status_file, budget, hist>>
           ELSE /\ IF script THEN Crash ELSE Handler
                /\ budget' = [budget EXCEPT !.fail = @ - 1]
    /\ idx' = 0
    /\ table' = EmptyTable
    /\ UNCHANGED <<politicians, completed, failed, remaining, loaded>>
    /\ UNCHANGED <<clientVars, cacheVars, toolVars>>

RankShared == RankSharedIn("rank_shared", "rank", FALSE)

\* compute_single_mp_metrics for entity s in stage `stage`: F are the
\* resources whose network fetch fails, dfail whether the vote-detail fetch
\* fails (fetch_vote_detail swallows it).  The cache and the requests after it.
MetricsOk(F) == F = {}
MetricsDetail(s, F) == MetricsOk(F) /\ DetailNeeded(s)
MetricsCache(s, F, dfail) ==
    LET backfilled == IF SpeechBackfill(s) THEN {"speeches"} ELSE {}
        c1 == CacheWrite(cache, s, (MetricNeeds(s) \ F) \cup backfilled)
    IN IF MetricsDetail(s, F) /\ ~dfail
       THEN [c1 EXCEPT ![<<"detail", 0>>] = "fresh"]
       ELSE c1
MetricsNet(stage, s, F) ==
    net \cup Requests(stage, s, MetricNeeds(s))
        \cup (IF MetricsDetail(s, F) THEN {<<stage, "detail", 0>>} ELSE {})
MetricsCost(s, F, dfail) ==
    Cardinality(F) + (IF MetricsDetail(s, F) /\ dfail THEN 1 ELSE 0)

\* One iteration of build_rankings_table's loop, lines 135-144; after the
\* last one the table is written, lines 149-158.
RankEntityIn(here, next, script) ==
    /\ pc = here
    /\ idx < Len(politicians)
    /\ LET s == politicians[idx + 1]
           last == idx + 1 = Len(politicians)
       IN \E F \in SUBSET MetricNeeds(s) : \E dfail \in BOOLEAN :
            /\ dfail => MetricsDetail(s, F)
            /\ MetricsCost(s, F, dfail) <= budget.fail
            /\ budget' = [budget EXCEPT !.fail = @ - MetricsCost(s, F, dfail)]
            /\ net' = MetricsNet("rank", s, F)
            /\ table' = LET t == TableAfter(table, s, MetricsOk(F))
                        IN IF last THEN TableDict(t, politicians) ELSE t
            /\ cache' =
                  LET c1 == MetricsCache(s, F, dfail)
                      c2 == [c1 EXCEPT ![<<"rankings", 0>>] = "fresh"]
                  IN IF ~last THEN c1 ELSE IF script THEN CardsDeleted(c2) ELSE c2
            /\ hist' = [hist EXCEPT !.table_written = last]
            /\ pc' = IF last THEN next ELSE here
            /\ idx' = IF last THEN 0 ELSE idx + 1
    /\ UNCHANGED <<politicians, status_file, completed, failed, remaining, loaded>>
    /\ UNCHANGED <<clientVars, cacheVars, toolVars>>

RankEntity == RankEntityIn("rank", "cards", FALSE)

\* One iteration of the card loop, lines 133-143; after the last one the
\* progress file is written with rankings_complete=True, line 146
\* (mark_rankings_complete in the script).
CardEntityIn(here, next) ==
    /\ pc = here
    /\ idx < Len(politicians)
    /\ LET s == politicians[idx + 1]
           last == idx + 1 = Len(politicians)
       IN \E F \in SUBSET MetricNeeds(s) : \E dfail \in BOOLEAN :
            /\ dfail => MetricsDetail(s, F)
            /\ MetricsCost(s, F, dfail) <= budget.fail
            /\ budget' = [budget EXCEPT !.fail = @ - MetricsCost(s, F, dfail)]
            /\ net' = MetricsNet("cards", s, F)
            /\ cache' = IF MetricsOk(F)
                        THEN [MetricsCache(s, F, dfail) EXCEPT ![<<"card", s>>] = "fresh"]
                        ELSE MetricsCache(s, F, dfail)
            /\ hist' = [hist EXCEPT !.cards_finished = last, !.true_written = @ \/ last,
                                    !.cards = IF MetricsOk(F) THEN @ \cup {s} ELSE @]
            /\ status_file' = IF last THEN SavedStatus(completed, failed, TRUE)
                              ELSE status_file
            /\ pc' = IF last THEN next ELSE here
            /\ idx' = IF last THEN 0 ELSE idx + 1
    /\ UNCHANGED <<politicians, completed, failed, remaining, table, loaded>>
    /\ UNCHANGED <<clientVars, cacheVars, toolVars>>

CardEntity == CardEntityIn("cards", "complete")

\* lifespan shutdown: warmup_task.cancel().  CancelledError is not an
\* Exception, so the handler of line 148 does not run and nothing is saved.
Cancel ==
    /\ Running
    /\ pc' = "cancelled"
    /\ UNCHANGED <<politicians, cache, status_file, completed, failed, idx,
                   remaining, table, loaded, hist, net, budget>>
    /\ UNCHANGED <<clientVars, cacheVars, toolVars>>

\* ------------------------------------------------- standalone script
\* if (i + 1) % 5 == 0: save_progress(...)
ScriptSaveEvery == 5
\* if not args.skip_rankings and len(completed) > 10
MinCompletedForRankings == 10

ScriptSaveDue(i) == (i + 1) % ScriptSaveEvery = 0

\* save_progress: "rankings_complete": False
SavedProgress(comp, fl) == SavedStatus(comp, fl, FALSE)

\* warmup_politician awaits ballots, speeches, bills in this order and
\* stops at the first that raises.
FetchOrder == <<"ballots", "speeches", "bills">>
UpTo(bad) ==
    {FetchOrder[j] : j \in {j \in 1..3 : \A i \in 1..(j - 1) : FetchOrder[i] # bad}}

\* main() starts.
ScriptStart ==
    /\ pc \in Stopped
    /\ budget.runs > 0
    /\ pc' = "s_shared"
    /\ idx' = 0
    /\ remaining' = <<>>
    /\ table' = EmptyTable
    /\ hist' = NewHist
    /\ net' = {}
    /\ budget' = [budget EXCEPT !.runs = @ - 1]
    /\ UNCHANGED <<politicians, cache, status_file, completed, failed, loaded>>
    /\ UNCHANGED <<clientVars, cacheVars, toolVars>>

\* Steps 1-4 up to the loop: the list, the session votes, the vote details
\* (fetch_vote_detail swallows a failure: dfail), the progress file loaded,
\* the remaining list.
ScriptShared ==
    /\ pc = "s_shared"
    /\ \E bad \in SharedNeeds \cup {"none"} : \E dfail \in BOOLEAN :
        LET prefetch == bad = "none" /\ ~ReadHit(<<"detail", 0>>)
            cost == (IF bad = "none" THEN 0 ELSE 1) + (IF dfail THEN 1 ELSE 0)
            st == LoadWarmupStatus(status_file)
        IN /\ dfail => prefetch
           /\ cost <= budget.fail
           /\ budget' = [budget EXCEPT !.fail = @ - cost]
           /\ net' = net \cup Requests("shared", 0, SharedAttempted(bad))
                        \cup (IF prefetch THEN {<<"shared", "detail", 0>>} ELSE {})
           /\ cache' = IF prefetch /\ ~dfail
                       THEN [SharedCache(bad) EXCEPT ![<<"detail", 0>>] = "fresh"]
                       ELSE SharedCache(bad)
           /\ IF bad = "none" /\ ~LoadRaises(status_file)
              THEN /\ completed' = st.completed_slugs
                   /\ failed' = st.failed_slugs
                   /\ loaded' = st
                   /\ remaining' = Remaining(politicians, completed', failed')
                   /\ pc' = "s_pass"
                   /\ UNCHANGED <<status_file, hist>>
              ELSE /\ Crash
                   /\ UNCHANGED <<completed, failed, loaded, remaining>>
    /\ idx' = 0
    /\ UNCHANGED <<politicians, table>>
    /\ UNCHANGED <<clientVars, cacheVars, toolVars>>

\* One iteration of the script's loop (lines 153-185): warmup_politician,
\* the entity recorded, save_progress every 5.
ScriptEntity ==
    /\ pc = "s_pass"
    /\ idx < Len(remaining)
    /\ LET s == remaining[idx + 1]
           needs == PassNeeds(s)
       IN \E bad \in needs \cup {"none"} :
            /\ bad # "none" => budget.fail > 0
            /\ LET ok == bad = "none"
                   asked == needs \cap UpTo(bad)
                   comp == CompletedAfter(completed, s, ok)
                   fl == FailedAfter(failed, s, ok)
                   unsaved == (comp \cup fl) \
                              (status_file.completed_slugs \cup status_file.failed_slugs)
               IN /\ completed' = comp
                  /\ failed' = fl
                  /\ cache' = CacheWrite(cache, s, asked \ {bad})
                  /\ net' = net \cup Requests("pass", s, asked)
                  /\ status_file' = IF ScriptSaveDue(idx)
                                    THEN SavedProgress(comp, fl)
                                    ELSE status_file
                  /\ hist' = [hist EXCEPT
                                !.raised = IF ok THEN @ ELSE @ \cup {s},
                                !.peak_unsaved = Max(@, Cardinality(unsaved))]
                  /\ budget' = [budget EXCEPT !.fail = @ - (IF ok THEN 0 ELSE 1)]
    /\ idx' = idx + 1
    /\ UNCHANGED <<pc, politicians, remaining, table, loaded>>
    /\ UNCHANGED <<clientVars, cacheVars, toolVars>>

\* After the loop (lines 187-192, 244-247): save_progress, then the
\* rankings only with more than 10 completed entities (--skip-rankings is
\* not given).
ScriptAfterPass ==
    /\ pc = "s_pass"
    /\ idx = Len(remaining)
    /\ status_file' = SavedProgress(completed, failed)
    /\ pc' = IF Cardinality(completed) > MinCompletedForRankings
             THEN "s_rank_shared" ELSE "s_done"
    /\ idx' = 0
    /\ UNCHANGED <<politicians, cache, completed, failed, remaining, table,
                   loaded, hist, net, budget>>
    /\ UNCHANGED <<clientVars, cacheVars, toolVars>>

ScriptRankShared == RankSharedIn("s_rank_shared", "s_rank", TRUE)
ScriptRankEntity == RankEntityIn("s_rank", "s_cards", TRUE)
ScriptCardEntity == CardEntityIn("s_cards", "s_done")

\* Ctrl+C: except KeyboardInterrupt prints and returns, nothing is saved.
ScriptInterrupt ==
    /\ ScriptRunning
    /\ pc' = "s_interrupted"
    /\ UNCHANGED <<politicians, cache, status_file, completed, failed, idx,
                   remaining, table, loaded, hist, net, budget>>
    /\ UNCHANGED <<clientVars, cacheVars, toolVars>>

\* Between two runs the progress file is found damaged: the last process
\* was killed in the middle of a save, or the file can no longer be read.
DamageStatusFile(form) ==
    /\ pc \in Stopped
    /\ budget.runs > 0
    /\ status_file.content \notin DamagedForms
    /\ status_file' = DamagedStatusFile(form)
    /\ UNCHANGED <<politicians, cache, completed, failed, pc, idx,
                   remaining, table, loaded, hist, net, budget>>
    /\ UNCHANGED <<clientVars, cacheVars, toolVars>>

\* Time passes: a record written with a finite TTL is past its expires_at.
Expire(k) ==
    /\ budget.expire > 0
    /\ k[1] \in ExpiringKinds
    /\ cache[k] = "fresh"
    /\ cache' = [cache EXCEPT ![k] = "expired"]
    /\ budget' = [budget EXCEPT !.expire = @ - 1]
    /\ UNCHANGED <<politicians, status_file, completed, failed, pc, idx,
                   remaining, table, loaded, hist, net>>
    /\ UNCHANGED <<clientVars, cacheVars, toolVars>>

\* The state before the first run: an empty cache directory, no progress
\* file, a remote list of n entities.
WarmInit(n, runs, fails, expiries) ==
    /\ politicians = [i \in 1..n |-> i]
    /\ cache = [k \in CacheKeys(politicians) |-> "absent"]
    /\ status_file = NoStatusFile
    /\ completed = {}
    /\ failed = {}
    /\ pc = "idle"
    /\ idx = 0
    /\ remaining = <<>>
    /\ table = EmptyTable
    /\ loaded = LoadWarmupStatus(NoStatusFile)
    /\ hist = NewHist
    /\ net = {}
    /\ budget = [runs |-> runs, fail |-> fails, expire |-> expiries]

\* No record file is looked at, no fetcher is called.
\* No batch, pagination, detail look-up or metrics call has begun.
ToolIdle ==
    /\ remote = <<>>
    /\ details = <<>>
    /\ pager = <<>>
    /\ lookup = <<>>
    /\ metric = <<>>

CacheIdle ==
    /\ files = <<>>
    /\ calls = <<>>
    /\ life = "serving"

ClientIdle ==
    /\ clock = MinDelaySeconds
    /\ request_timestamps = <<>>
    /\ last_request_time = 0
    /\ task = [c \in Callers |-> IdleTask]

Init == ClientIdle /\ CacheIdle /\ ToolIdle /\ WarmInit(NumSlugs, MaxRuns, MaxFailures, MaxExpiries)

Next ==
    \/ StartRun
    \/ FetchShared
    \/ PassEntity
    \/ RankShared
    \/ RankEntity
    \/ CardEntity
    \/ Cancel
    \/ \E k \in DOMAIN cache : Expire(k)

Spec == Init /\ [][Next]_vars

\* Batch runs: runs of the task and of the script over the long list, one
\* failing fetch at most.
BatchInit == ClientIdle /\ CacheIdle /\ ToolIdle /\ WarmInit(BatchSlugs, MaxRuns, 1, 0)

BatchNext ==
    \/ StartRun
    \/ FetchShared
    \/ PassEntity
    \/ RankShared
    \/ RankEntity
    \/ CardEntity
    \/ Cancel
    \/ ScriptStart
    \/ ScriptShared
    \/ ScriptEntity
    \/ ScriptAfterPass
    \/ ScriptRankShared
    \/ ScriptRankEntity
    \/ ScriptCardEntity
    \/ ScriptInterrupt

SpecBatch == BatchInit /\ [][BatchNext]_vars

\* Restarts: the batch runs, with a progress file that may be found damaged
\* when a process starts.
RestartInit == ClientIdle /\ CacheIdle /\ ToolIdle /\ WarmInit(BatchSlugs, MaxRuns, 1, 0)

RestartNext ==
    \/ StartRun
    \/ FetchShared
    \/ PassEntity
    \/ RankShared
    \/ RankEntity
    \/ CardEntity
    \/ Cancel
    \/ ScriptStart
    \/ ScriptShared
    \/ ScriptEntity
    \/ ScriptAfterPass
    \/ ScriptRankShared
    \/ ScriptRankEntity
    \/ ScriptCardEntity
    \/ ScriptInterrupt
    \/ \E form \in DamagedForms : DamageStatusFile(form)

SpecRestart == RestartInit /\ [][RestartNext]_vars

ClientInit == ClientIdle /\ CacheIdle /\ ToolIdle /\ WarmInit(0, 0, 0, 0)

ClientNext ==
    \/ \E c \in Callers : StartGet(c)
    \/ \E c \in Callers : ThrottleEnter(c)
    \/ \E c \in Callers : ThrottleAfterDelay(c)
    \/ \E c \in Callers : ThrottleAfterWindow(c)
    \/ \E c \in Callers : \E r \in Responses : \E h \in RetryAfterHeaders : Respond(c, r, h)
    \/ \E c \in Callers : NextAttempt(c)
    \/ Tick

SpecClient == ClientInit /\ [][ClientNext]_vars

\* ------------------------------------------------------ cache records
\* CacheEntry (app/cache/manager.py) at the level of the record file's
\* content.  Bounds: the TTLs handed to write() and the last instant.
MaxTtl == 2
MaxRecordClock == 4
RecordTtls == 1..MaxTtl

\* Python values handed to write(): lists and string-keyed mappings, as the
\* fetchers build them from parsed responses.  An entry is <<key, value>>,
\* with key "" for the elements of a list.
PyValue(type, entries) == [py |-> type, items |-> entries]
NoValue == PyValue("None", <<>>)
SomeValues ==
    {PyValue("list", <<>>), PyValue("list", <<<<"", 1>>, <<"", 2>>>>),
     PyValue("dict", <<>>), PyValue("dict", <<<<"speech_count", 1>>>>)}

\* json.dumps / json.loads: a list is written as a JSON array, a mapping as
\* a JSON object, None as null, and read back.
JsonText(type, entries) == [js |-> type, items |-> entries]
Dumps(v) ==
    CASE v.py = "list" -> JsonText("array", v.items)
      [] v.py = "dict" -> JsonText("object", v.items)
      [] OTHER -> JsonText("null", <<>>)
Loads(j) ==
    CASE j.js = "array" -> PyValue("list", j.items)
      [] j.js = "object" -> PyValue("dict", j.items)
      [] OTHER -> NoValue

\* What a record file can hold.
\*   missing     no file at the path
\*   record      an object with expires_at and data, as write() leaves it
\*   not_json    text that is not JSON
\*   truncated   the beginning of a record
\*   not_object  JSON that is not an object (an array, a string, null)
\*   no_expires  an object with data and without expires_at
\*   no_data     an object with expires_at and without data
\* `wrote` is the value write() was called with (NoValue when the content
\* does not come from write()).
Malformed == {"not_json", "truncated", "not_object", "no_expires", "no_data"}
FileContent(form, exp, text, v) ==
    [form |-> form, expires_at |-> exp, data |-> text, wrote |-> v]
MissingFile == FileContent("missing", 0, Dumps(NoValue), NoValue)

\* write(): lines 38-53.
WriteRecord(v, ttl, now) == FileContent("record", now + ttl, Dumps(v), v)

\* The outcome of a call: a returned value, None ("absent"), a boolean or
\* an exception ("raised").
Outcome(out, v) == [out |-> out, data |-> v]
Returned(v) == IF v = NoValue THEN Outcome("absent", NoValue) ELSE Outcome("value", v)

PastExpiryInclusive(f, now) == now >= f.expires_at

\* datetime.now(timezone.utc) > expires_at
PastExpiry(f, now) == now > f.expires_at

\* read(): lines 15-26.  The try covers only the parse; raw["expires_at"]
\* and raw["data"] are outside it.
Read(f, now) ==
    CASE f.form = "missing" -> Outcome("absent", NoValue)
      [] f.form \in {"not_json", "truncated"} -> Outcome("absent", NoValue)
      [] f.form \in {"not_object", "no_expires"} -> Outcome("raised", NoValue)
      [] f.form = "no_data" ->
            IF PastExpiry(f, now) THEN Outcome("absent", NoValue)
            ELSE Outcome("raised", NoValue)
      [] OTHER ->
            IF PastExpiry(f, now) THEN Outcome("absent", NoValue)
            ELSE Returned(Loads(f.data))

ReadStaleHonouringExpiry(f, now) == Read(f, now)

\* read_stale(): lines 28-36.  raw.get("data") is inside the try, which
\* catches JSONDecodeError and OSError only.
ReadStale(f, now) ==
    CASE f.form = "missing" -> Outcome("absent", NoValue)
      [] f.form \in {"not_json", "truncated"} -> Outcome("absent", NoValue)
      [] f.form = "not_object" -> Outcome("raised", NoValue)
      [] f.form = "no_data" -> Outcome("absent", NoValue)
      [] OTHER -> Returned(Loads(f.data))

\* is_expired(): lines 55-63, every exception caught.
IsExpired(f, now) ==
    CASE f.form = "missing" -> Outcome("true", NoValue)
      [] f.form \in {"not_json", "truncated", "not_object", "no_expires"} ->
            Outcome("true", NoValue)
      [] OTHER -> Outcome(IF PastExpiry(f, now) THEN "true" ELSE "false", NoValue)

\* A caller that is in no call.
NoCall == [op |-> "none", out |-> "none", data |-> NoValue]
Called(op, outcome) == [op |-> op, out |-> outcome.out, data |-> outcome.data]
AllIdle == [c \in DOMAIN calls |-> NoCall]

\* A caller writes a record; outcomes of earlier calls are forgotten, they
\* describe the previous content.
CallWrite(c, k, v, ttl) ==
    /\ files' = [files EXCEPT ![k] = WriteRecord(v, ttl, clock)]
    /\ calls' = [AllIdle EXCEPT ![c] = Called("write", Outcome("none", v))]
    /\ UNCHANGED <<life, clientVars, warmVars, toolVars>>

CallRead(c, k) ==
    /\ calls' = [calls EXCEPT ![c] = Called("read", Read(files[k], clock))]
    /\ UNCHANGED <<files, life, clientVars, warmVars, toolVars>>

CallReadStale(c, k) ==
    /\ calls' = [calls EXCEPT ![c] = Called("read_stale", ReadStale(files[k], clock))]
    /\ UNCHANGED <<files, life, clientVars, warmVars, toolVars>>

CallIsExpired(c, k) ==
    /\ calls' = [calls EXCEPT ![c] = Called("is_expired", IsExpired(files[k], clock))]
    /\ UNCHANGED <<files, life, clientVars, warmVars, toolVars>>

\* The file is damaged from outside the program (a crash in mid-write, an
\* edit by hand, a file of another format).
Damage(k, form) ==
    /\ form \in Malformed
    /\ files[k].form = "record"
    /\ files' = [files EXCEPT ![k] =
                    CASE form = "no_expires" -> FileContent(form, 0, files[k].data, NoValue)
                      [] form = "no_data" ->
                            FileContent(form, files[k].expires_at, Dumps(NoValue), NoValue)
                      [] OTHER -> FileContent(form, 0, Dumps(NoValue), NoValue)]
    /\ calls' = AllIdle
    /\ UNCHANGED <<life, clientVars, warmVars, toolVars>>

\* A second passes.
Elapse ==
    /\ clock < MaxRecordClock
    /\ clock' = clock + 1
    /\ calls' = AllIdle
    /\ UNCHANGED <<request_timestamps, last_request_time, task, files, life, warmVars, toolVars>>

RecordInit ==
    /\ ClientIdle
    /\ ToolIdle
    /\ WarmInit(0, 0, 0, 0)
    /\ files = [k \in {"list"} |-> MissingFile]
    /\ calls = [c \in Callers |-> NoCall]
    /\ life = "serving"

RecordNext ==
    \/ \E c \in Callers : \E k \in DOMAIN files : \E v \in SomeValues : \E ttl \in RecordTtls :
          CallWrite(c, k, v, ttl)
    \/ \E c \in Callers : \E k \in DOMAIN files : CallRead(c, k)
    \/ \E c \in Callers : \E k \in DOMAIN files : CallReadStale(c, k)
    \/ \E c \in Callers : \E k \in DOMAIN files : CallIsExpired(c, k)
    \/ \E k \in DOMAIN files : \E form \in Malformed : Damage(k, form)
    \/ Elapse

SpecRecord == RecordInit /\ [][RecordNext]_vars

\* ------------------------------------------------------------ fetchers
\* The fetchers of app/api (politicians, votes, bills, speeches) over the
\* record files, called by the warmup task and by the request handlers, and
\* the shutdown of lifespan.  Time is in seconds.

\* Settings (app/config.py): TTLs in seconds and the recess multiplier.
TtlPoliticianList == 172800
TtlSessionVotes == 21600
TtlVoteDetailAsBallots == 21600
TtlVoteDetail == 315360000
TtlBallots == 21600
TtlSpeeches == 14400
TtlBills == 43200
RecessMultiplier == 5

\* Bounds: fetcher calls in all, items in a response, and the horizon
\* (the last instant, about 23 days).
MaxCalls == 3
MaxItems == 1
MaxFetchClock == 2000000

Fetchers == {"list", "votes", "bills", "ballots", "detail", "speeches", "speech_count"}
\* The fetchers that return the record they read or wrote.
RecordFetchers == {"list", "votes", "bills", "ballots", "detail"}

\* The record a fetcher looks up first.
KeyOf(fn) == IF fn \in {"speeches", "speech_count"} THEN "summary" ELSE fn

\* effective_ttl(base_ttl, is_in_session)
EffectiveTtl(base, in_session) == IF ~in_session THEN base * RecessMultiplier ELSE base

\* The TTL a fetcher writes its record with.
TtlOf(key, in_session) ==
    CASE key = "list" -> EffectiveTtl(TtlPoliticianList, in_session)
      [] key = "votes" -> EffectiveTtl(TtlSessionVotes, in_session)
      [] key = "ballots" -> EffectiveTtl(TtlBallots, in_session)
      [] key = "bills" -> EffectiveTtl(TtlBills, in_session)
      [] key = "detail" -> TtlVoteDetail
      [] OTHER -> EffectiveTtl(TtlSpeeches, in_session)

\* The value a fetcher makes of a response of n items.
ListOf(n) == PyValue("list", [i \in 1..n |-> <<"", i>>])
SummaryOf(n) == PyValue("dict", <<<<"speech_count", n>>>>)
CountValue(n) == PyValue("int", <<<<"", n>>>>)
Payload(key, n) == IF key = "summary" THEN SummaryOf(n) ELSE ListOf(n)

\* cached["speech_count"]
SpeechCount(summary) == CountValue(summary.items[1][2])

CacheHitIfTruthy(r) == r.out = "value" /\ r.data.items # <<>>

\* if cached is not None
CacheHit(r) == r.out = "value"

StaleAllowedAlways(fn, stale_ok) == fn = "ballots"

\* if stale_ok: stale = entry.read_stale()   (fetch_politician_ballots only)
StaleAllowed(fn, stale_ok) == fn = "ballots" /\ stale_ok

\* A caller's current fetcher call.  pc: "idle", "flight" (awaiting the
\* response), "done", "cancelled".  The other fields record what the call
\* found and did: fresh/stale/had (its record at entry), full (a readable
\* full speech record at entry), answer (what answered it), sent
\* (requests dispatched), stored (records written), made
\* (the record made of its response), latest (no call ended after it).
FetchIdle ==
    [op |-> "none", stale_ok |-> FALSE, pc |-> "idle", out |-> "none", data |-> NoValue,
     count |-> 0, fresh |-> FALSE, stale |-> FALSE, had |-> FALSE, full |-> FALSE,
     answer |-> "none", sent |-> 0, stored |-> {}, made |-> MissingFile, latest |-> FALSE]

\* _ensure_summary: written only if summary_entry.is_expired().
SummaryDue(fs, now) == IsExpired(fs["summary"], now).out = "true"
EnsureSummary(fs, count, ttl, now) ==
    IF SummaryDue(fs, now)
    THEN [fs EXCEPT !["summary"] = WriteRecord(SummaryOf(count), ttl, now)]
    ELSE fs

\* Call `ended` of caller c has just ended.
Ended(c, ended) ==
    [d \in DOMAIN calls |->
        IF d = c THEN [ended EXCEPT !.latest = TRUE] ELSE [calls[d] EXCEPT !.latest = FALSE]]

\* Fetcher calls made so far.
CallsMade == calls["warmup"].count + calls["serving"].count

\* The rate limiter's record of a dispatch (_throttle, lines 46-61).
Dispatched(ts, now) == Append(Evict(ts, now), now)

\* A fetcher is entered (the code up to its first await): the cache
\* look-ups, and either a return or the dispatch of the request.
CallFetcher(c, fn, so) ==
    /\ life = "serving"
    /\ calls[c].pc \in {"idle", "done"}
    /\ CallsMade < MaxCalls
    /\ so => fn = "ballots"
    /\ KeyOf(fn) \in DOMAIN files
    /\ LET key == KeyOf(fn)
           r == Read(files[key], clock)
           rs == ReadStale(files[key], clock)
           full == ReadStale(files["speeches"], clock)
           entered == [FetchIdle EXCEPT
                          !.op = fn, !.stale_ok = so, !.count = calls[c].count + 1,
                          !.fresh = (r.out = "value"),
                          !.stale = (r.out # "value" /\ rs.out = "value"),
                          !.had = (files[key].form = "record"),
                          !.full = (fn = "speech_count" /\ full.out = "value")]
           return(how, v, fs, wrote) ==
               /\ files' = fs
               /\ calls' = Ended(c,
                              [entered EXCEPT !.pc = "done", !.answer = how,
                                              !.out = "value", !.data = v,
                                              !.stored = wrote])
               /\ UNCHANGED <<request_timestamps, last_request_time>>
       IN CASE CacheHit(r) ->
                 return("fresh",
                        CASE fn = "speeches" -> ListOf(0)
                          [] fn = "speech_count" -> SpeechCount(r.data)
                          [] OTHER -> r.data,
                        files, {})
            [] ~CacheHit(r) /\ StaleAllowed(fn, so) /\ rs.out = "value" ->
                 return("stale", rs.data, files, {})
            [] ~CacheHit(r) /\ fn = "speech_count" /\ full.out = "value" ->
                 \E in_session \in BOOLEAN :
                    return("backfill", CountValue(Len(full.data.items)),
                           EnsureSummary(files, Len(full.data.items),
                                         TtlOf("summary", in_session), clock),
                           IF SummaryDue(files, clock) THEN {"summary"} ELSE {})
            [] OTHER ->
                 /\ request_timestamps' = Dispatched(request_timestamps, clock)
                 /\ last_request_time' = clock
                 /\ calls' = [calls EXCEPT ![c] =
                                [entered EXCEPT !.pc = "flight", !.answer = "network",
                                                !.sent = 1]]
                 /\ UNCHANGED files
    /\ UNCHANGED <<clock, task, life, warmVars, toolVars>>

\* The awaited request ends: it raised (ok = FALSE) or returned n items.
\* in_session is what is_likely_recess() gave the call.
Complete(c, ok, n, in_session) ==
    /\ life = "serving"
    /\ calls[c].pc = "flight"
    /\ LET fn == calls[c].op
           key == KeyOf(fn)
           rec == WriteRecord(Payload(key, n), TtlOf(key, in_session), clock)
           fs == IF fn \in RecordFetchers
                 THEN [files EXCEPT ![key] = rec]
                 ELSE EnsureSummary(files, n, TtlOf(key, in_session), clock)
           after == Read(fs["summary"], clock)
       IN IF ok
          THEN /\ files' = fs
               /\ calls' = Ended(c,
                              [calls[c] EXCEPT !.pc = "done", !.out = "value",
                                        !.data = CASE fn = "speeches" -> ListOf(0)
                                                   [] fn = "speech_count" ->
                                                        IF after.out = "value"
                                                        THEN SpeechCount(after.data)
                                                        ELSE CountValue(0)
                                                   [] OTHER -> Payload(key, n),
                                        !.made = rec,
                                        !.stored =
                                            IF fn \in RecordFetchers \/ SummaryDue(files, clock)
                                            THEN {key} ELSE {}])
          ELSE /\ calls' = Ended(c,
                              [calls[c] EXCEPT !.pc = "done",
                                        !.out = IF fn = "detail" THEN "absent" ELSE "raised"])
               /\ UNCHANGED files
    /\ UNCHANGED <<clientVars, life, warmVars, toolVars>>

\* The first instants at which a record is past its expires_at, and the
\* horizon.
Expiries == {files[k].expires_at + 1 : k \in {k \in DOMAIN files :
                files[k].form = "record" /\ files[k].expires_at >= clock}}
Earliest(S) == CHOOSE x \in S : \A y \in S : x <= y

\* Time passes until the next record expires, or until the horizon.
Wait ==
    /\ clock < MaxFetchClock
    /\ clock' = Earliest({t \in Expiries : t <= MaxFetchClock} \cup {MaxFetchClock})
    /\ UNCHANGED <<request_timestamps, last_request_time, task, cacheVars, warmVars, toolVars>>

TaskStoppedUnawaited(c) == TRUE

\* await warmup_task returns: the task is not suspended in a fetch.
TaskStopped(c) == calls[c].pc # "flight"

\* lifespan after the yield: warmup_task.cancel().  The handlers have
\* answered their requests by then.
ShutdownCancel ==
    /\ life = "serving"
    /\ calls["serving"].pc # "flight"
    /\ life' = "stopping"
    /\ UNCHANGED <<files, calls, clientVars, warmVars, toolVars>>

\* CancelledError is thrown into the task at its await; no except of the
\* fetchers catches it, nothing is written.
Cancelled(c) ==
    /\ life = "stopping"
    /\ calls[c].pc = "flight"
    /\ calls' = [calls EXCEPT ![c].pc = "cancelled"]
    /\ UNCHANGED <<files, life, clientVars, warmVars, toolVars>>

\* await client.stop(): the connection pool is closed.
ClosePool ==
    /\ life = "stopping"
    /\ TaskStopped("warmup")
    /\ life' = "closed"
    /\ UNCHANGED <<files, calls, clientVars, warmVars, toolVars>>

\* The fetchers share no record except within a family, so a behaviour
\* follows the records of one family.  A cache directory of an earlier
\* version may hold full speech records.
Families ==
    {{"list"}, {"votes"}, {"bills"}, {"ballots"}, {"detail"}, {"summary", "speeches"}}

FetchInit ==
    /\ ClientIdle
    /\ ToolIdle
    /\ WarmInit(0, 0, 0, 0)
    /\ \E family \in Families :
       \E legacy \in {MissingFile, WriteRecord(ListOf(MaxItems), 0, 0)} :
          files = [k \in family |-> IF k = "speeches" THEN legacy ELSE MissingFile]
    /\ calls = [c \in Callers |-> FetchIdle]
    /\ life = "serving"

FetchNext ==
    \/ \E c \in Callers : \E fn \in Fetchers : \E so \in BOOLEAN : CallFetcher(c, fn, so)
    \/ \E c \in Callers : \E ok \in BOOLEAN : \E n \in 0..MaxItems : \E in_session \in BOOLEAN :
          Complete(c, ok, n, in_session)
    \/ Wait
    \/ ShutdownCancel
    \/ Cancelled("warmup")
    \/ ClosePool

SpecFetch == FetchInit /\ [][FetchNext]_vars

\* --------------------------------------- fetch_vote_details_batch (votes.py)

\* concurrency: int = 3
Concurrency == 3

\* Vote numbers one batch call is given, at most.
MaxVotes == 5

\* A fetch_one coroutine: "waiting" for the semaphore, "fetching" (inside
\* fetch_vote_detail), or "done" with what fetch_vote_detail returned.
FetchOneCreated == [pc |-> "waiting", out |-> "none"]

InProgress == {i \in DOMAIN details : details[i].pc = "fetching"}

LockedNever == FALSE

\* asyncio.Semaphore(concurrency).locked()
Locked == Cardinality(InProgress) >= Concurrency

\* asyncio.Semaphore wakes its waiters in the order they began to wait,
\* which is the order gather() created them in.
NextWaiter(i) ==
    /\ i \in DOMAIN details
    /\ details[i].pc = "waiting"
    /\ \A j \in DOMAIN details : j < i => details[j].pc # "waiting"

\* async with semaphore: fetch_vote_detail is entered.
FetchOneEnter(i) ==
    /\ NextWaiter(i)
    /\ ~Locked
    /\ details' = [details EXCEPT ![i].pc = "fetching"]
    /\ UNCHANGED <<pager, lookup, metric, clientVars, cacheVars, warmVars, remote>>

\* fetch_vote_detail returns the detail, or None when the request failed;
\* the semaphore is released.
FetchOneReturn(i, found) ==
    /\ i \in DOMAIN details
    /\ details[i].pc = "fetching"
    /\ details' = [details EXCEPT
                      ![i] = [pc |-> "done", out |-> IF found THEN "detail" ELSE "None"]]
    /\ UNCHANGED <<pager, lookup, metric, clientVars, cacheVars, warmVars, remote>>

\* gather() has created one fetch_one per requested vote number.
DetailsInit ==
    /\ remote = <<>>
    /\ ClientIdle
    /\ CacheIdle
    /\ WarmInit(0, 0, 0, 0)
    /\ \E n \in 0..MaxVotes : details = [i \in 1..n |-> FetchOneCreated]
    /\ pager = <<>>
    /\ lookup = <<>>
    /\ metric = <<>>

DetailsNext ==
    \/ \E i \in DOMAIN details : FetchOneEnter(i)
    \/ \E i \in DOMAIN details : \E found \in BOOLEAN : FetchOneReturn(i, found)

\* The event loop runs every coroutine that can run, and fetch_vote_detail
\* returns: get() makes at most four attempts and its except catches every
\* Exception.
SpecDetails ==
    /\ DetailsInit
    /\ [][DetailsNext]_vars
    /\ WF_vars(\E i \in 1..MaxVotes : FetchOneEnter(i))
    /\ \A i \in 1..MaxVotes : WF_vars(\E found \in BOOLEAN : FetchOneReturn(i, found))

\* ------------------------------------- fetch_politician_detail (politicians.py)

TtlPoliticianDetail == 172800

\* The detail record of the entity the handler asks for.
DetailRecord == PyValue("dict", <<<<"memberships", 0>>>>)

\* The handler's call of fetch_politician_detail.  pc: "idle", "get"
\* (awaiting client.get), "done".  cause is how the get ended, out what
\* fetch_politician_detail returned, status the handler's HTTP status.
LookupIdle == [pc |-> "idle", cause |-> "none", out |-> "none", status |-> 0]

\* except Exception: return None
ReportFailure(cause) == "None"

\* card_fragment / politician page: if politician is None: raise 404
HandlerStatus(out) ==
    CASE out = "record" -> 200
      [] out = "None" -> 404
      [] OTHER -> 500

Ends(cause, out) ==
    [lookup EXCEPT !.pc = "done", !.cause = cause, !.out = out,
                   !.status = HandlerStatus(out)]

\* The handler calls fetch_politician_detail: a fresh record is returned
\* at once, otherwise client.get is entered.
DetailCall(c) ==
    /\ lookup.pc \in {"idle", "done"}
    /\ task[c].pc \in {"idle", "returned", "raised"}
    /\ LET r == Read(files["politician"], clock) IN
       IF CacheHit(r)
       THEN /\ lookup' = Ends("cached", "record")
            /\ UNCHANGED task
       ELSE /\ task[c].gets < MaxGets
            /\ task' = [task EXCEPT ![c] = [IdleTask EXCEPT !.pc = "throttle",
                                                            !.gets = task[c].gets + 1]]
            /\ lookup' = [lookup EXCEPT !.pc = "get", !.cause = "none",
                                        !.out = "none", !.status = 0]
    /\ UNCHANGED <<clock, request_timestamps, last_request_time, files, calls, life>>
    /\ UNCHANGED <<details, pager, metric, warmVars, remote>>

\* client.get has returned or raised: the record is written and returned,
\* or the exception is caught; the handler goes on with what it was given.
DetailReturn(c, in_session) ==
    /\ lookup.pc = "get"
    /\ task[c].pc \in {"returned", "raised"}
    /\ IF task[c].pc = "returned"
       THEN /\ files' = [files EXCEPT !["politician"] =
                           WriteRecord(DetailRecord,
                                       EffectiveTtl(TtlPoliticianDetail, in_session), clock)]
            /\ lookup' = Ends("ok", "record")
       ELSE /\ lookup' = Ends(task[c].last, ReportFailure(task[c].last))
            /\ UNCHANGED files
    /\ UNCHANGED <<clientVars, calls, life, details, pager, metric, warmVars, remote>>

LookupInit ==
    /\ remote = <<>>
    /\ ClientIdle
    /\ WarmInit(0, 0, 0, 0)
    /\ files = [k \in {"politician"} |-> MissingFile]
    /\ calls = <<>>
    /\ life = "serving"
    /\ details = <<>>
    /\ pager = <<>>
    /\ lookup = LookupIdle
    /\ metric = <<>>

LookupNext ==
    \/ DetailCall("serving")
    \/ \E in_session \in BOOLEAN : DetailReturn("serving", in_session)
    \/ ThrottleEnter("serving")
    \/ ThrottleAfterDelay("serving")
    \/ ThrottleAfterWindow("serving")
    \/ \E r \in Responses : \E h \in RetryAfterHeaders : Respond("serving", r, h)
    \/ NextAttempt("serving")
    \/ Tick

SpecLookup == LookupInit /\ [][LookupNext]_vars

\* ------------------------------------------- paginate (app/api/client.py)

\* Pages one paginate call is let to request, items on a page, and the
\* offsets a next-page indicator names (multiples of the page limit).
MaxPages == 3
MaxPageItems == 2
MaxOffset == 2

\* The next-page indicator of a response: absent (None, missing or empty),
\* a URL with a numeric offset, a URL without an offset parameter (or with a
\* blank one, which parse_qs drops), a URL whose offset is not a number, or
\* a value that is not a URL string.
NextForms == {"absent", "offset", "no_offset", "non_numeric", "not_text"}

\* The objects of page number p, n of them.
PageObjects(p, n) == [j \in 1..n |-> <<p, j>>]

RECURSIVE Flatten(_)
Flatten(ps) == IF ps = <<>> THEN <<>> ELSE Head(ps) \o Flatten(Tail(ps))

\* qs.get("offset", [None])[0] and int(new_offset): "none", a number, or
\* the exception raised.
ParseOffset(form, k) ==
    CASE form = "offset" -> [out |-> "int", offset |-> k]
      [] form = "no_offset" -> [out |-> "none", offset |-> 0]
      [] form = "non_numeric" -> [out |-> "ValueError", offset |-> 0]
      [] form = "not_text" -> [out |-> "AttributeError", offset |-> 0]

\* paginate's locals.  pc: "idle", "get" (awaiting self.get), "returned",
\* "raised".  received keeps the objects of every response, last the form
\* of the last response's indicator ("failed": self.get raised).
PagerIdle ==
    [pc |-> "idle", offset |-> 0, results |-> <<>>, received |-> <<>>, last |-> "none"]

\* paginate is called: results = [], offset 0, the first get is awaited.
PaginateCall ==
    /\ pager.pc = "idle"
    /\ pager' = [PagerIdle EXCEPT !.pc = "get"]
    /\ UNCHANGED <<details, lookup, metric, clientVars, cacheVars, warmVars, remote>>

\* self.get raised: the exception leaves paginate.
PageFails ==
    /\ pager.pc = "get"
    /\ pager' = [pager EXCEPT !.pc = "raised", !.last = "failed"]
    /\ UNCHANGED <<details, lookup, metric, clientVars, cacheVars, warmVars, remote>>

\* A page arrives with n objects and a next-page indicator (lines 100-112).
PageArrives(n, form, k) ==
    /\ pager.pc = "get"
    /\ LET objects == PageObjects(Len(pager.received) + 1, n)
           results == pager.results \o objects
           got == [pager EXCEPT !.results = results,
                                !.received = Append(@, objects), !.last = form]
           parsed == ParseOffset(form, k)
       IN IF form = "absent" \/ n = 0
          THEN pager' = [got EXCEPT !.pc = "returned"]
          ELSE CASE parsed.out = "none" -> pager' = [got EXCEPT !.pc = "returned"]
                 [] parsed.out = "int" ->
                      /\ Len(got.received) < MaxPages
                      /\ pager' = [got EXCEPT !.offset = parsed.offset]
                 [] OTHER -> pager' = [got EXCEPT !.pc = "raised"]
    /\ UNCHANGED <<details, lookup, metric, clientVars, cacheVars, warmVars, remote>>

PagerInit ==
    /\ remote = <<>>
    /\ ClientIdle
    /\ CacheIdle
    /\ WarmInit(0, 0, 0, 0)
    /\ details = <<>>
    /\ pager = PagerIdle
    /\ lookup = <<>>
    /\ metric = <<>>

PagerNext ==
    \/ PaginateCall
    \/ PageFails
    \/ \E n \in 0..MaxPageItems : \E form \in NextForms : \E k \in 0..MaxOffset :
          PageArrives(n, form, k)

SpecPager == PagerInit /\ [][PagerNext]_vars

\* --------------------------------------- metrics (app/metrics/percentiles.py)

\* Metric values are whole numbers 1..MaxValue; a population has up to
\* MaxPop entries, or up to MaxBesideCrowd entries beside a crowd of
\* Crowd entries that share one value (as the 210 of 340 members with
\* full attendance do).
MaxValue == 4
MaxPop == 4
MaxBesideCrowd == 2
Crowd == 200

RECURSIVE SeqsUpTo(_, _)
SeqsUpTo(S, n) ==
    IF n = 0 THEN {<<>>}
    ELSE LET shorter == SeqsUpTo(S, n - 1)
         IN shorter \cup {Append(q, x) : q \in shorter, x \in S}

Populations ==
    SeqsUpTo(1..MaxValue, MaxPop)
        \cup {q \o [i \in 1..Crowd |-> x] : q \in SeqsUpTo(1..MaxValue, MaxBesideCrowd),
                                            x \in 1..MaxValue}

\* sum(1 for v in all_values if ...)
CountBelow(value, all_values) ==
    Cardinality({i \in DOMAIN all_values : all_values[i] < value})
CountAbove(value, all_values) ==
    Cardinality({i \in DOMAIN all_values : all_values[i] > value})
MaxOf(all_values) ==
    CHOOSE x \in Range(all_values) : \A y \in Range(all_values) : y <= x
MinOf(all_values) ==
    CHOOSE x \in Range(all_values) : \A y \in Range(all_values) : x <= y

\* round(num / den): Python rounds a half to the even neighbour.  (The
\* float quotient of the code agrees with the exact one for every
\* population of the model; the code was run on all of them.)
RoundHalfEven(num, den) ==
    LET q == num \div den
        r == num % den
    IN IF 2 * r > den THEN q + 1
       ELSE IF 2 * r < den THEN q
       ELSE IF q % 2 = 0 THEN q ELSE q + 1

NonTopExcludingBottom(all_values) ==
    Len(all_values)
        - Cardinality({i \in DOMAIN all_values : all_values[i] = MinOf(all_values)})

\* len(all_values) - sum(1 for v in all_values if v == max(all_values))
NonTop(all_values) ==
    Len(all_values)
        - Cardinality({i \in DOMAIN all_values : all_values[i] = MaxOf(all_values)})

GetPercentileUnanchored(value, all_values) ==
    IF all_values = <<>> THEN 50
    ELSE RoundHalfEven(CountBelow(value, all_values) * 100, Len(all_values))

\* get_percentile
GetPercentile(value, all_values) ==
    IF all_values = <<>> THEN 50
    ELSE IF CountAbove(value, all_values) = 0 THEN 100
    ELSE IF CountBelow(value, all_values) = 0 THEN 0
    ELSE RoundHalfEven(CountBelow(value, all_values) * 99, NonTop(all_values))

\* A call of get_percentile before it runs: the value is one of the
\* population or lies outside it (0 and MaxValue + 1 lie beyond every
\* population).
PercentileCalls ==
    {[fn |-> "get_percentile", value |-> v, all_values |-> P, done |-> FALSE, out |-> 0] :
        v \in 0..(MaxValue + 1), P \in Populations}

CallGetPercentile ==
    /\ metric.fn = "get_percentile" /\ ~metric.done
    /\ metric' = [metric EXCEPT !.done = TRUE,
                                !.out = GetPercentile(metric.value, metric.all_values)]
    /\ UNCHANGED <<details, pager, lookup, clientVars, cacheVars, warmVars, remote>>

\* filter_table_by_group.  A rankings table has one metrics record per
\* entity, in the order of the entity list; the subject may have none.
MaxTable == 6
MinGroupSize == 5
GovernmentParty == "Liberal"
Parties == {"Liberal", "Conservative"}
Groups == {"all", "party", "government", "opposition", "unknown"}

Tables ==
    UNION {{[failed_slugs |-> <<>>,
             metrics |-> [i \in 1..n |-> [slug |-> i, party |-> parties[i]]]] :
                parties \in [1..n -> Parties]} : n \in 0..MaxTable}

\* The records of the comparison group (lines 300-307).
GroupMembers(metrics_list, group, mp_party, government_party) ==
    LET InParty(m) == m.party = mp_party
        InGovernment(m) == m.party = government_party
        InOpposition(m) == m.party # government_party
    IN CASE group = "party" -> SelectSeq(metrics_list, InParty)
         [] group = "government" -> SelectSeq(metrics_list, InGovernment)
         [] group = "opposition" -> SelectSeq(metrics_list, InOpposition)
         [] OTHER -> metrics_list

Holds(q, slug) == \E i \in DOMAIN q : q[i].slug = slug

\* next((m for m in metrics_list if m["slug"] == slug), None)
OwnRecord(metrics_list, slug) ==
    metrics_list[CHOOSE i \in DOMAIN metrics_list :
                    /\ metrics_list[i].slug = slug
                    /\ \A j \in 1..(i - 1) : metrics_list[j].slug # slug]

NeedsReAddNever(slug, metrics_list, filtered) == FALSE

\* if mp_own is not None and not any(m["slug"] == slug for m in filtered)
NeedsReAdd(slug, metrics_list, filtered) ==
    Holds(metrics_list, slug) /\ ~Holds(filtered, slug)

TooSmallNever(filtered) == FALSE

\* if len(filtered) < 5
TooSmall(filtered) == Len(filtered) < MinGroupSize

\* filter_table_by_group: the returned table
FilterTableByGroup(slug, tbl, group, mp_party, government_party) ==
    LET metrics_list == tbl.metrics
        members == GroupMembers(metrics_list, group, mp_party, government_party)
        filtered == IF NeedsReAdd(slug, metrics_list, members)
                    THEN members \o <<OwnRecord(metrics_list, slug)>>
                    ELSE members
    IN [tbl EXCEPT !.metrics = IF TooSmall(filtered) THEN metrics_list ELSE filtered]

\* A call of filter_table_by_group before it runs; the subject's party is
\* what the caller read from the entity's detail record.
FilterCalls ==
    {[fn |-> "filter_table_by_group", slug |-> sl, table |-> t, group |-> g,
      mp_party |-> mp, done |-> FALSE, out |-> <<>>] :
        sl \in 1..(MaxTable + 1), t \in Tables, g \in Groups, mp \in Parties \cup {""}}

CallFilterTableByGroup ==
    /\ metric.fn = "filter_table_by_group" /\ ~metric.done
    /\ metric' = [metric EXCEPT
                     !.done = TRUE,
                     !.out = FilterTableByGroup(metric.slug, metric.table, metric.group,
                                                metric.mp_party, GovernmentParty)]
    /\ UNCHANGED <<details, pager, lookup, clientVars, cacheVars, warmVars, remote>>

\* compute_distributions_for_mp.  num_buckets: int = 20
NumBuckets == 20
IntegerMetrics == {"bills_sponsored", "debate_speeches"}

\* The metrics the model follows: one that may be None and is binned over
\* its range, one that is a count.  A value is <<v>>, None is <<>>.
DistributionMetrics == {"party_loyalty", "bills_sponsored"}
LoyaltySamples == {<<>>, <<20>>, <<60>>, <<100>>}
BillsSamples == {<<0>>, <<3>>, <<25>>}
MaxRows == 3

MetricTable(rows) ==
    [metrics |-> [i \in DOMAIN rows |-> [slug |-> i, party_loyalty |-> rows[i][1],
                                         bills_sponsored |-> rows[i][2]]]]

\* [m[metric] for m in metrics_list if m.get(metric) is not None]
AllVals(metrics_list, name) ==
    LET HasValue(m) == m[name] # <<>>
        having == SelectSeq(metrics_list, HasValue)
    IN [i \in DOMAIN having |-> having[i][name][1]]

Min(a, b) == IF a <= b THEN a ELSE b

BinIndexUnclipped(v, lo, span, n) == ((v - lo) * n) \div span

\* min(int((v - lo) / span * n), n - 1)
BinIndex(v, lo, span, n) == Min(((v - lo) * n) \div span, n - 1)

NoDistribution == [present |-> FALSE, buckets |-> <<>>, mp_bucket |-> 0, lo |-> 0, hi |-> 0]

\* The loop body of compute_distributions_for_mp for one metric; mp_val is
\* the subject's value, <<>> when the subject has no record or no value.
Distribution(name, all_vals, mp_val) ==
    IF all_vals = <<>> \/ mp_val = <<>>
    THEN NoDistribution
    ELSE LET lo == MinOf(all_vals)
             hi == MaxOf(all_vals)
         IN IF name \in IntegerMetrics /\ hi < NumBuckets
            THEN [present |-> TRUE,
                  buckets |-> [k \in 1..(hi + 1) |->
                                 Cardinality({i \in DOMAIN all_vals : all_vals[i] = k - 1})],
                  mp_bucket |-> mp_val[1], lo |-> lo, hi |-> hi]
            ELSE LET span == IF hi - lo = 0 THEN 1 ELSE hi - lo
                     n == NumBuckets
                 IN [present |-> TRUE,
                     buckets |-> [k \in 1..n |->
                                    Cardinality({i \in DOMAIN all_vals :
                                                    BinIndex(all_vals[i], lo, span, n) = k - 1})],
                     mp_bucket |-> BinIndex(mp_val[1], lo, span, n), lo |-> lo, hi |-> hi]

\* compute_distributions_for_mp
ComputeDistributionsForMp(slug, tbl) ==
    LET metrics_list == tbl.metrics
    IN [name \in DistributionMetrics |->
           Distribution(name, AllVals(metrics_list, name),
                        IF Holds(metrics_list, slug)
                        THEN OwnRecord(metrics_list, slug)[name]
                        ELSE <<>>)]

DistributionCall(sl, t) ==
    [fn |-> "compute_distributions_for_mp", slug |-> sl, table |-> t,
     done |-> FALSE, out |-> <<>>]

CallComputeDistributionsForMp ==
    /\ metric.fn = "compute_distributions_for_mp" /\ ~metric.done
    /\ metric' = [metric EXCEPT
                     !.done = TRUE,
                     !.out = ComputeDistributionsForMp(metric.slug, metric.table)]
    /\ UNCHANGED <<details, pager, lookup, clientVars, cacheVars, warmVars, remote>>

\* compute_attendance (app/metrics/attendance.py).  A ballot is its
\* "ballot" value; a session vote is its date as a day number (a date that
\* does not parse is date.min, before every start date); start_date is <<>>
\* for None.
BallotValues == {"Yes", "No", "Paired", "Didn't vote"}
VoteDates == {1, 2}
StartDates == {<<>>, <<2>>}
MaxBallots == 4
MaxSessionVotes == 4

AttendsAlways(ballot) == TRUE

\* b.get("ballot") in ("Yes", "No")
Attends(ballot) == ballot \in {"Yes", "No"}

\* eligible_votes
EligibleVotes(session_votes, start_date) ==
    IF start_date # <<>>
    THEN LET OnOrAfter(d) == d >= start_date[1] IN SelectSeq(session_votes, OnOrAfter)
    ELSE session_votes

\* compute_attendance, in tenths of a percent: round(votes_cast / total * 100, 1)
ComputeAttendance(ballots, session_votes, start_date) ==
    IF session_votes = <<>> THEN 0
    ELSE LET total == Len(EligibleVotes(session_votes, start_date))
             votes_cast == Len(SelectSeq(ballots, Attends))
         IN IF total = 0 THEN 0
            ELSE RoundHalfEven(votes_cast * 1000, total)

AttendanceCalls ==
    {[fn |-> "compute_attendance", ballots |-> b, session_votes |-> sv, start_date |-> sd,
      done |-> FALSE, out |-> 0] :
        b \in SeqsUpTo(BallotValues, MaxBallots),
        sv \in SeqsUpTo(VoteDates, MaxSessionVotes),
        sd \in StartDates}

CallComputeAttendance ==
    /\ metric.fn = "compute_attendance" /\ ~metric.done
    /\ metric' = [metric EXCEPT
                     !.done = TRUE,
                     !.out = ComputeAttendance(metric.ballots, metric.session_votes,
                                               metric.start_date)]
    /\ UNCHANGED <<details, pager, lookup, clientVars, cacheVars, warmVars, remote>>

\* compute_party_loyalty (app/metrics/party_loyalty.py).  A ballot is its
\* vote (0: the ballot carries no vote URL) and its value; the detail of a
\* vote is "missing" (fetch_vote_detail returned None), "no_position" (no
\* entry of party_votes is the entity's party), the party's position "Yes"
\* or "No", or "free" (position Yes with a disagreement above
\* free_vote_threshold).  The result is <<>> for None, else <<tenths>>.
LoyaltyVotes == {1, 2}
DetailKinds == {"missing", "no_position", "Yes", "No", "free"}
LoyaltyParties == {"Liberal", "Independent", "INDEPENDENT", "Ind.", ""}
MaxLoyaltyBallots == 2

LoyaltyBallots ==
    SeqsUpTo([vote : LoyaltyVotes \cup {0}, ballot : BallotValues], MaxLoyaltyBallots)

\* The ballots the loop of lines 43-55 keeps: a vote URL, not Paired.
Kept(ballots) ==
    SelectSeq(ballots, LAMBDA b : b.vote # 0 /\ b.ballot # "Paired")

\* ballot_map[vote_num]: the value of the last kept ballot on the vote.
BallotMap(ballots, v) ==
    LET kept == Kept(ballots)
        last == CHOOSE i \in DOMAIN kept :
                    kept[i].vote = v /\ \A j \in DOMAIN kept : kept[j].vote = v => j <= i
    IN kept[last].ballot

\* The votes counted in total (lines 66-84): a detail was obtained, the
\* party has a position on it, and it is not a free vote.
Attributable(ballots, vote_detail) ==
    {v \in {Kept(ballots)[i].vote : i \in DOMAIN Kept(ballots)} :
        vote_detail[v] \in {"Yes", "No"}}

\* if not ballots: return 0.0   and   if not vote_numbers: return 0.0
NoBallots(ballots) == <<0>>

\* compute_party_loyalty: the result, and whether fetch_vote_details_batch
\* was called.
ComputePartyLoyalty(ballots, politician_party, vote_detail) ==
    IF Unaffiliated(politician_party) THEN [out |-> <<>>, batch |-> FALSE]
    ELSE IF ballots = <<>> THEN [out |-> NoBallots(ballots), batch |-> FALSE]
    ELSE IF Kept(ballots) = <<>> THEN [out |-> NoBallots(ballots), batch |-> FALSE]
    ELSE LET counted == Attributable(ballots, vote_detail)
             total == Cardinality(counted)
             loyal == Cardinality({v \in counted : BallotMap(ballots, v) = vote_detail[v]})
         IN [out |-> IF total = 0 THEN <<>> ELSE <<RoundHalfEven(loyal * 1000, total)>>,
             batch |-> TRUE]

LoyaltyCall(b, party, d) ==
    [fn |-> "compute_party_loyalty", ballots |-> b, politician_party |-> party,
     vote_detail |-> d, done |-> FALSE, out |-> <<>>, batch |-> FALSE]

CallComputePartyLoyalty ==
    /\ metric.fn = "compute_party_loyalty" /\ ~metric.done
    /\ LET res == ComputePartyLoyalty(metric.ballots, metric.politician_party,
                                      metric.vote_detail)
       IN metric' = [metric EXCEPT !.done = TRUE, !.out = res.out, !.batch = res.batch]
    /\ UNCHANGED <<details, pager, lookup, clientVars, cacheVars, warmVars, remote>>

MetricsInit ==
    /\ remote = <<>>
    /\ ClientIdle
    /\ CacheIdle
    /\ WarmInit(0, 0, 0, 0)
    /\ details = <<>>
    /\ pager = <<>>
    /\ lookup = <<>>
    /\ \/ \E m \in PercentileCalls : metric = m
       \/ \E m \in FilterCalls : metric = m
       \/ \E n \in 0..MaxRows : \E rows \in [1..n -> LoyaltySamples \X BillsSamples] :
            \E sl \in 1..(MaxRows + 1) : metric = DistributionCall(sl, MetricTable(rows))
       \/ \E m \in AttendanceCalls : metric = m
       \/ \E b \in LoyaltyBallots : \E party \in LoyaltyParties :
            \E d \in [LoyaltyVotes -> DetailKinds] : metric = LoyaltyCall(b, party, d)

MetricsNext ==
    \/ CallGetPercentile
    \/ CallFilterTableByGroup
    \/ CallComputeDistributionsForMp
    \/ CallComputeAttendance
    \/ CallComputePartyLoyalty

SpecMetrics == MetricsInit /\ [][MetricsNext]_vars

\* ------------------- attendance over the cached records (percentiles.py)
\* The session-vote list is fetched once by the caller (warmup line 78,
\* build_rankings_table line 130) and handed to compute_single_mp_metrics,
\* which fetches the entity's ballots itself; the warmup pass fetches the
\* ballots too.  remote counts the votes the source holds for the
\* session and the Yes/No ballots the entity cast on them, and the
\* requests it has served; a record holds as many items as the source
\* served.  Requests succeed.

\* Bounds: votes held in the session, requests served.
MaxRemoteVotes == 2
MaxServed == 3

\* The source serves one more request.
Served == [remote EXCEPT !.served = @ + 1]

AttendIdle ==
    [fn |-> "compute_single_mp_metrics", pc |-> "idle", session_votes |-> 0,
     ballots |-> 0, answer |-> "none", attendance |-> 0]

\* The source holds one more vote; the entity casts Yes or No on it, or
\* does not.
VoteHeld(casts) ==
    /\ remote.votes < MaxRemoteVotes
    /\ remote' = [remote EXCEPT !.votes = @ + 1,
                                !.cast = @ + (IF casts THEN 1 ELSE 0)]
    /\ UNCHANGED <<clientVars, cacheVars, warmVars, details, pager, lookup, metric>>

\* fetch_session_votes (votes.py 9-22), called by the caller of
\* compute_single_mp_metrics, which keeps the list.
FetchSessionVotes(in_session) ==
    /\ LET r == Read(files["votes"], clock)
       IN IF CacheHit(r)
          THEN /\ metric' = [AttendIdle EXCEPT !.pc = "held",
                                               !.session_votes = Len(r.data.items)]
               /\ UNCHANGED <<files, request_timestamps, last_request_time, remote>>
          ELSE /\ remote.served < MaxServed
               /\ remote' = Served
               /\ files' = [files EXCEPT !["votes"] =
                              WriteRecord(ListOf(remote.votes),
                                          TtlOf("votes", in_session), clock)]
               /\ request_timestamps' = Dispatched(request_timestamps, clock)
               /\ last_request_time' = clock
               /\ metric' = [AttendIdle EXCEPT !.pc = "held",
                                               !.session_votes = remote.votes]
    /\ UNCHANGED <<clock, task, calls, life, warmVars, details, pager, lookup>>

\* fetch_politician_ballots (votes.py 25-68): what the call returns, and
\* the files and the dispatch it leaves.
FetchPoliticianBallots(stale_ok, in_session) ==
    LET r == Read(files["ballots"], clock)
        rs == ReadStale(files["ballots"], clock)
    IN CASE CacheHit(r) ->
              [n |-> Len(r.data.items), answer |-> "fresh", files |-> files]
         [] ~CacheHit(r) /\ StaleAllowed("ballots", stale_ok) /\ rs.out = "value" ->
              [n |-> Len(rs.data.items), answer |-> "stale", files |-> files]
         [] OTHER ->
              [n |-> remote.cast, answer |-> "network",
               files |-> [files EXCEPT !["ballots"] =
                            WriteRecord(ListOf(remote.cast),
                                        TtlOf("ballots", in_session), clock)]]

\* The warmup pass (warmup_politician): the ballots are fetched with
\* stale_ok = False.
WarmBallots(in_session) ==
    /\ LET b == FetchPoliticianBallots(FALSE, in_session)
       IN /\ b.answer = "network"
          /\ remote.served < MaxServed
          /\ remote' = Served
          /\ files' = b.files
          /\ request_timestamps' = Dispatched(request_timestamps, clock)
          /\ last_request_time' = clock
    /\ UNCHANGED <<clock, task, calls, life, warmVars, details, pager, lookup, metric>>

\* attendance = compute_attendance(ballots, session_votes)  (line 90)
AttendanceOf(votes_cast, total) ==
    ComputeAttendance([i \in 1..votes_cast |-> "Yes"], [i \in 1..total |-> 1], <<>>)

\* compute_single_mp_metrics (percentiles.py 67-104) on the list its
\* caller holds: the ballots with stale_ok = True, then the attendance.
ComputeSingleMpMetrics(in_session) ==
    /\ metric.pc = "held"
    /\ LET b == FetchPoliticianBallots(TRUE, in_session)
       IN /\ files' = b.files
          /\ IF b.answer = "network"
             THEN /\ remote.served < MaxServed
                  /\ remote' = Served
                  /\ request_timestamps' = Dispatched(request_timestamps, clock)
                  /\ last_request_time' = clock
             ELSE UNCHANGED <<request_timestamps, last_request_time, remote>>
          /\ metric' = [metric EXCEPT
                           !.pc = "done", !.ballots = b.n, !.answer = b.answer,
                           !.attendance = AttendanceOf(b.n, metric.session_votes)]
    /\ UNCHANGED <<clock, task, calls, life, warmVars, details, pager, lookup>>

AttendInit ==
    /\ ClientIdle
    /\ WarmInit(0, 0, 0, 0)
    /\ files = [k \in {"votes", "ballots"} |-> MissingFile]
    /\ calls = <<>>
    /\ life = "serving"
    /\ details = <<>>
    /\ pager = <<>>
    /\ lookup = <<>>
    /\ metric = AttendIdle
    /\ remote = [votes |-> 0, cast |-> 0, served |-> 0]

AttendNext ==
    \/ \E casts \in BOOLEAN : VoteHeld(casts)
    \/ \E in_session \in BOOLEAN : FetchSessionVotes(in_session)
    \/ \E in_session \in BOOLEAN : WarmBallots(in_session)
    \/ \E in_session \in BOOLEAN : ComputeSingleMpMetrics(in_session)
    \/ Wait

SpecAttend == AttendInit /\ [][AttendNext]_vars

\* ------------------------------------------------------ claims: client

\* C1: any two dispatch timestamps recorded by _throttle are at least
\* min_delay_seconds apart, whatever the interleaving of the callers.
\* (The deque holds every recorded timestamp of the last 60 seconds.)
C1_MinDelayBetweenDispatches ==
    \A i, j \in DOMAIN request_timestamps :
        i < j => request_timestamps[j] - request_timestamps[i] >= MinDelaySeconds

\* C2: no closed 60-second window holds more than rate_limit_per_minute
\* recorded dispatches (a window starting at a dispatch and ending exactly
\* 60 seconds later included).
C2_RateLimitPerWindow ==
    \A i \in DOMAIN request_timestamps :
        Cardinality({j \in DOMAIN request_timestamps :
                        /\ request_timestamps[j] >= request_timestamps[i]
                        /\ request_timestamps[j] <= request_timestamps[i] + WindowSeconds})
            <= RateLimitPerMinute

RetryableFailures == {"429", "5xx", "timeout"}

\* C3: one get call dispatches at most 4 requests, one per attempt and each
\* right after a _throttle; it returns a value only on a successful
\* response, and after a 4th failed attempt it can only sleep and raise.
C3_GetAttemptsBounded ==
    \A c \in Callers :
        /\ task[c].sent <= 4
        /\ task[c].pc = "http" => task[c].sent = task[c].attempt + 1
        /\ task[c].pc = "returned" => task[c].last = "ok"
        /\ (task[c].sent = 4 /\ task[c].last \in RetryableFailures /\ task[c].pc # "http")
               => task[c].pc \in {"backoff", "raised"}

\* C3 witness: a call whose four attempts all failed has raised.
C3_Witness ==
    \E c \in Callers :
        task[c].pc = "raised" /\ task[c].sent = 4 /\ task[c].last \in {"429", "5xx"}

\* ------------------------------------------------ claims: orchestrator

PerEntityResources == {"ballots", "speeches", "bills"}

\* C4: a run dispatches no request for a per-entity resource (ballots,
\* speeches, bills) of an entity its progress file listed as completed at
\* its start, in any stage.
C4_NoRefetchOfCompleted ==
    \A r \in net :
        r[2] \in PerEntityResources => r[3] \notin loaded.completed_slugs

\* C5: completed and failed are disjoint, in memory and in the progress
\* file, over any sequence of runs, failures and restarts.
C5_CompletedFailedDisjoint ==
    /\ completed \cap failed = {}
    /\ status_file.completed_slugs \cap status_file.failed_slugs = {}

\* C5 witness: after a second run the progress file lists a completed and
\* a failed entity.
C5_Witness ==
    /\ budget.runs = 0
    /\ pc = "complete"
    /\ status_file.completed_slugs # {}
    /\ status_file.failed_slugs # {}

\* C6: an entity whose gather raised is in failed and not in completed, the
\* pass goes on to the next entity, and after the pass every entity of the
\* list is in exactly one of completed and failed.
C6_FailureMarksEntityFailed ==
    /\ \A s \in hist.raised : s \in failed /\ s \notin completed
    /\ pc \in {"rank_shared", "rank", "cards", "complete"} =>
          \A s \in Range(politicians) : (s \in completed) # (s \in failed)

\* C6 witness: the pass has ended, an entity's fetch failed in it and a
\* later entity of the list was completed by it.
C6_Witness ==
    /\ pc = "rank"
    /\ \E s \in hist.raised :
          \E t \in completed \ loaded.completed_slugs : s < t

\* C7: a run writes rankings_complete = true only once it has written the
\* rankings table and finished the card stage; the file holds true during a
\* run only from that write or from before the run.
C7_CompleteOnlyAfterBothStages ==
    /\ hist.true_written => hist.table_written /\ hist.cards_finished
    /\ status_file.rankings_complete => hist.true_written \/ hist.flag_before

\* C7 witness: a run ended with the flag written true.
C7_Witness ==
    /\ pc = "complete"
    /\ hist.true_written
    /\ status_file.rankings_complete
    /\ cache[<<"rankings", 0>>] = "fresh"

\* C8: when an error escapes a stage, the progress file holds the
\* in-memory completed and failed sets and rankings_complete = false.
C8_EscapedErrorPersistsProgress ==
    pc = "failed_run" =>
        /\ status_file.exists
        /\ status_file.completed_slugs = completed
        /\ status_file.failed_slugs = failed
        /\ status_file.rankings_complete = FALSE

\* C8 witness: an error escaped a run that had loaded rankings_complete =
\* true and a completed entity.
C8_Witness ==
    /\ pc = "failed_run"
    /\ loaded.rankings_complete
    /\ completed # {}

\* C9: the BuildingRankings and CachingCards stages dispatch no request.
C9_NoRequestAfterPass ==
    \A r \in net : r[1] \notin {"rank", "cards"}

Unsaved ==
    (completed \cup failed) \ (status_file.completed_slugs \cup status_file.failed_slugs)

\* C10: the per-entity pass rewrites the progress file every 10 processed
\* entities (after the 1st, the 11th, ...), and never more than 10 processed
\* entities are in memory only.
C10_ProgressSavedEveryTen ==
    /\ hist.peak_unsaved <= 10
    /\ Cardinality(Unsaved) < 10
    /\ (pc \in {"pass", "rank_shared"} /\ idx > 0 /\ (idx - 1) % 10 = 0) => Unsaved = {}

\* C10 witness: the 11th entity was recorded with 10 entities unsaved, and
\* the file was then rewritten.
C10_Witness ==
    /\ pc = "rank_shared"
    /\ idx = 11
    /\ hist.peak_unsaved = 10
    /\ Unsaved = {}

\* ---------------------------------------------------- claims: script

\* C11: when the script is interrupted in its per-entity pass, the progress
\* file holds every entity processed before the interruption (so that the
\* next invocation skips them in its pass).
C11_InterruptKeepsProcessed ==
    (pc = "s_interrupted" /\ remaining # <<>>) => Unsaved = {}

\* ----------------------------------------------- claims: cache records

C14_ExpiredRecord ==
    \A c \in DOMAIN calls : \A k \in DOMAIN files :
        (files[k].form = "record" /\ clock > files[k].expires_at) =>
            /\ calls[c].op = "read" => calls[c].out = "absent"
            /\ calls[c].op = "is_expired" => calls[c].out = "true"
            /\ calls[c].op = "read_stale" =>
                  calls[c].out = "value" /\ calls[c].data = files[k].wrote

\* C14 witness: past expires_at one caller got absent from read and the
\* other the written mapping from read_stale.
C14_Witness ==
    \E k \in DOMAIN files :
        /\ files[k].form = "record"
        /\ clock > files[k].expires_at
        /\ calls["warmup"].op = "read" /\ calls["warmup"].out = "absent"
        /\ calls["serving"].op = "read_stale"
        /\ calls["serving"].data = PyValue("dict", <<<<"speech_count", 1>>>>)

\* C15: on a malformed record file read and read_stale return absent and
\* is_expired returns true; none of them raises.
C15_MalformedIsMiss ==
    \A c \in DOMAIN calls : \A k \in DOMAIN files :
        files[k].form \in Malformed =>
            /\ calls[c].op \in {"read", "read_stale"} => calls[c].out = "absent"
            /\ calls[c].op = "is_expired" => calls[c].out = "true"

\* ---------------------------------------------------- claims: fetchers

\* C12: the connection pool is closed only once the warmup task is no
\* longer suspended in a fetch, a cancelled fetch writes nothing, and no
\* record file is ever left written part-way.
C12_CooperativeShutdown ==
    /\ life = "closed" => calls["warmup"].pc # "flight"
    /\ \A c \in DOMAIN calls : calls[c].pc = "cancelled" => calls[c].stored = {}
    /\ \A k \in DOMAIN files : files[k].form \in {"missing", "record"}

\* C12 witness: the pool is closed after the warmup task was cancelled in
\* a fetch, with a record written before the shutdown in place.
C12_Witness ==
    /\ life = "closed"
    /\ calls["warmup"].pc = "cancelled"
    /\ \E k \in DOMAIN files : files[k].form = "record" /\ files[k].wrote # NoValue

\* C16: when two fetches that both found the key cold have both stored
\* their response, the file under the key is the record of the one that
\* ended last.
C16_LastWriterWins ==
    \A c, d \in DOMAIN calls :
        (/\ c # d
         /\ calls[c].pc = "done" /\ calls[d].pc = "done"
         /\ calls[c].answer = "network" /\ calls[d].answer = "network"
         /\ calls[c].out = "value" /\ calls[d].out = "value"
         /\ KeyOf(calls[c].op) = KeyOf(calls[d].op)
         /\ ~calls[c].had /\ ~calls[d].had
         /\ calls[c].latest)
            => files[KeyOf(calls[c].op)] = calls[c].made

\* C17: a fetcher call that finds a fresh record under its key leaves the
\* rate limiter's timestamp window and last-dispatch time and every record
\* unchanged, ends at once, and (for the fetchers that return the record)
\* returns the record's payload.
C17_FreshHitIsSilent ==
    [][\A c \in DOMAIN calls :
          (calls'[c].count = calls[c].count + 1 /\ calls'[c].fresh) =>
              /\ request_timestamps' = request_timestamps
              /\ last_request_time' = last_request_time
              /\ files' = files
              /\ calls'[c].pc = "done" /\ calls'[c].sent = 0
              /\ calls'[c].op \in RecordFetchers =>
                    /\ calls'[c].out = "value"
                    /\ calls'[c].data = files[KeyOf(calls'[c].op)].wrote]_vars

\* C17 witness: a fresh record holding an empty list answered
\* fetch_sponsored_bills after the request that fetched it.
C17_Witness ==
    \E c \in DOMAIN calls :
        /\ calls[c].op = "bills" /\ calls[c].fresh /\ calls[c].latest
        /\ calls[c].data = ListOf(0)
        /\ Len(request_timestamps) = 1

\* C18: with an expired, readable ballots record, stale_ok returns the
\* expired payload without a request or a write; without stale_ok the
\* fetcher goes to the network and its response replaces the record.
C18_BallotsStaleOk ==
    \A c \in DOMAIN calls :
        (calls[c].op = "ballots" /\ calls[c].stale) =>
            IF calls[c].stale_ok
            THEN /\ calls[c].pc = "done" /\ calls[c].answer = "stale"
                 /\ calls[c].sent = 0 /\ calls[c].stored = {}
                 /\ calls[c].out = "value"
                 /\ calls[c].latest =>
                       /\ calls[c].data = files["ballots"].wrote
                       /\ PastExpiry(files["ballots"], clock)
            ELSE /\ calls[c].sent = 1 /\ calls[c].answer = "network"
                 /\ (calls[c].pc = "done" /\ calls[c].out = "value") =>
                       /\ calls[c].stored = {"ballots"}
                       /\ calls[c].latest => files["ballots"] = calls[c].made

\* C18 witness: the same expired record served to a stale_ok call and
\* replaced by a call without stale_ok.
C18_Witness ==
    \E c, d \in DOMAIN calls :
        /\ calls[c].op = "ballots" /\ calls[c].stale /\ calls[c].stale_ok
        /\ calls[c].pc = "done"
        /\ calls[d].op = "ballots" /\ calls[d].stale /\ ~calls[d].stale_ok
        /\ calls[d].pc = "done" /\ calls[d].out = "value" /\ calls[d].latest

\* C19: fetch_speech_count answers from the fresh summary, else from the
\* stale full record (backfilling the summary), else from the network, and
\* the network path writes the full speech record and the summary.
C19_SpeechCountOrder ==
    \A c \in DOMAIN calls :
        (calls[c].op = "speech_count" /\ calls[c].pc = "done") =>
            /\ calls[c].fresh => calls[c].answer = "fresh"
            /\ (~calls[c].fresh /\ calls[c].full) =>
                  calls[c].answer = "backfill" /\ calls[c].stored = {"summary"}
            /\ (~calls[c].fresh /\ ~calls[c].full) => calls[c].answer = "network"
            /\ (calls[c].answer = "network" /\ calls[c].out = "value") =>
                  calls[c].stored = {"summary", "speeches"}

C21_BatchConcurrencyBounded ==
    /\ [](Cardinality(InProgress) <= 3)
    /\ <>(\A i \in DOMAIN details : details[i].pc # "waiting")

\* C21 witness: three calls in progress, one finished, one still waiting.
C21_Witness ==
    /\ Cardinality(InProgress) = 3
    /\ \E i \in DOMAIN details : details[i].pc = "waiting"
    /\ \E i \in DOMAIN details : details[i].pc = "done"

\* ------------------------------------------------ claims: politician detail

TransientFailures == {"429", "5xx", "timeout"}

\* C22: what fetch_politician_detail and its handler report after a
\* transient failure (timeout, 5xx or 429 until the attempts are used up)
\* differs from what they report for an entity that does not exist (a 404
\* response).
C22_NotFoundDistinguishable ==
    (lookup.pc = "done" /\ lookup.cause \in TransientFailures) =>
        \/ lookup.out # ReportFailure("4xx")
        \/ lookup.status # HandlerStatus(ReportFailure("4xx"))

\* ------------------------------------------------------- claims: paginate

\* C23: paginate goes on exactly while the last response has objects and a
\* next-page indicator with a parsable offset; at any other response it
\* returns the objects of all the responses in page order, without raising.
C23_PaginateStops ==
    (pager.pc # "idle" /\ pager.last \notin {"none", "failed"}) =>
        IF pager.last = "offset" /\ pager.received[Len(pager.received)] # <<>>
        THEN pager.pc = "get"
        ELSE pager.pc = "returned" /\ pager.results = Flatten(pager.received)

\* -------------------------------------------------------- claims: metrics

Ranked == metric.fn = "get_percentile" /\ metric.done

\* C24 as stated: for a non-empty population, get_percentile is 100 for a
\* value equal to the maximum and 0 for a value equal to the minimum.
C24_ExtremesAnchored ==
    (Ranked /\ metric.all_values # <<>>) =>
        /\ metric.value = MaxOf(metric.all_values) => metric.out = 100
        /\ metric.value = MinOf(metric.all_values) => metric.out = 0

\* C24 amended: for a non-empty population, get_percentile is 100 for a
\* value equal to the maximum, and 0 for a value equal to the minimum when
\* the minimum is below the maximum.
C24_ExtremesAnchoredUnlessAllTied ==
    (Ranked /\ metric.all_values # <<>>) =>
        /\ metric.value = MaxOf(metric.all_values) => metric.out = 100
        /\ (metric.value = MinOf(metric.all_values)
              /\ MinOf(metric.all_values) < MaxOf(metric.all_values)) => metric.out = 0

\* C24 witness: a crowd tied at the maximum, ranked 100.
C24_Witness ==
    /\ Ranked /\ metric.out = 100
    /\ CountBelow(metric.value, metric.all_values) > 0
    /\ Len(metric.all_values) - NonTop(metric.all_values) >= Crowd

\* C25: get_percentile is monotonic non-decreasing in the value, for values
\* inside or outside the population.
C25_PercentileMonotonic ==
    Ranked =>
        \A w \in 0..(MaxValue + 1) :
            /\ w <= metric.value => GetPercentile(w, metric.all_values) <= metric.out
            /\ metric.value <= w => metric.out <= GetPercentile(w, metric.all_values)

\* C25 witness: two values of one population ranked strictly inside 0..100,
\* the lower one lower.
C25_Witness ==
    /\ Ranked /\ metric.out < 100
    /\ \E u \in 1..MaxValue :
          /\ u < metric.value
          /\ 0 < GetPercentile(u, metric.all_values)
          /\ GetPercentile(u, metric.all_values) < metric.out

\* C26: a value of the population that is neither its maximum nor its
\* minimum is ranked in 1..99, at count_below / (size - tied at maximum) * 99
\* rounded to the nearest integer.
C26_InteriorInOneToNinetyNine ==
    (/\ Ranked
     /\ metric.value \in Range(metric.all_values)
     /\ metric.value # MaxOf(metric.all_values)
     /\ metric.value # MinOf(metric.all_values)) =>
        LET below == CountBelow(metric.value, metric.all_values)
            non_top == NonTop(metric.all_values)
            twice_error == 2 * (metric.out * non_top - below * 99)
        IN /\ metric.out \in 1..99
           /\ twice_error <= non_top /\ -twice_error <= non_top

Filtered == metric.fn = "filter_table_by_group" /\ metric.done

\* The records of the requested group in the input table.
Requested ==
    GroupMembers(metric.table.metrics, metric.group, metric.mp_party, GovernmentParty)

\* C27 as stated: filter_table_by_group returns the full population
\* whenever the requested group (party, government or opposition) has fewer
\* than 5 members in the table.
C27_SmallGroupFallsBack ==
    (Filtered /\ metric.group \in {"party", "government", "opposition"}
              /\ Len(Requested) < 5) =>
        metric.out.metrics = metric.table.metrics

\* C27 amended: filter_table_by_group returns the full population exactly
\* when the requested group, counted with the subject's record when the
\* table has one outside the group, has fewer than 5 records; otherwise it
\* returns the group with that record.
C27_SmallSampleFallsBack ==
    (Filtered /\ metric.group \in {"party", "government", "opposition"}) =>
        LET outside == Holds(metric.table.metrics, metric.slug)
                          /\ ~Holds(Requested, metric.slug)
            sample == Len(Requested) + (IF outside THEN 1 ELSE 0)
        IN IF sample < 5
           THEN metric.out.metrics = metric.table.metrics
           ELSE /\ Len(metric.out.metrics) = sample
                /\ SubSeq(metric.out.metrics, 1, Len(Requested)) = Requested

\* C27 witness: a non-empty group of fewer than 5 without the subject, and
\* the full population returned.
C27_Witness ==
    /\ Filtered /\ metric.group = "government"
    /\ Len(Requested) \in 1..3
    /\ Holds(metric.table.metrics, metric.slug) /\ ~Holds(Requested, metric.slug)
    /\ Len(metric.table.metrics) > 4
    /\ metric.out.metrics = metric.table.metrics

\* C28: for every group value the returned population holds the subject's
\* record exactly once whenever the input table holds it, and the rest of
\* the table is returned as it was given.
C28_SubjectKeptOnce ==
    Filtered =>
        /\ Holds(metric.table.metrics, metric.slug) =>
              Cardinality({i \in DOMAIN metric.out.metrics :
                              metric.out.metrics[i].slug = metric.slug}) = 1
        /\ metric.out.failed_slugs = metric.table.failed_slugs
        /\ \A i \in DOMAIN metric.out.metrics :
              \E j \in DOMAIN metric.table.metrics :
                  metric.out.metrics[i] = metric.table.metrics[j]

\* C28 witness: the subject, outside the requested group, is the last
\* record of a returned population that is not the full one.
C28_Witness ==
    /\ Filtered /\ metric.group = "opposition"
    /\ ~Holds(Requested, metric.slug)
    /\ metric.out.metrics # metric.table.metrics
    /\ metric.out.metrics[Len(metric.out.metrics)].slug = metric.slug

Distributed == metric.fn = "compute_distributions_for_mp" /\ metric.done

RECURSIVE SumOf(_)
SumOf(q) == IF q = <<>> THEN 0 ELSE Head(q) + SumOf(Tail(q))

\* Value v lies in bin k of n equal-width bins over [lo, hi], the last bin
\* closed at hi; when lo = hi every value lies in the first bin.
InBin(v, k, lo, hi, n) ==
    IF lo = hi THEN k = 0
    ELSE /\ k * (hi - lo) <= (v - lo) * n
         /\ (v - lo) * n < (k + 1) * (hi - lo) \/ k = n - 1

\* C29: an integer metric whose maximum is below the bucket count gets one
\* bucket per integer 0..max, any other metric the configured number of
\* equal-width bins over [min, max]; the bucket counts sum to the number of
\* records that have a value and the subject's bucket index is a valid
\* index of a non-empty bucket.  The result is absent exactly when the
\* subject has no value or no record has one.
C29_DistributionBuckets ==
    Distributed =>
        \A name \in DistributionMetrics :
            LET d == metric.out[name]
                vals == AllVals(metric.table.metrics, name)
                has_own == /\ Holds(metric.table.metrics, metric.slug)
                           /\ OwnRecord(metric.table.metrics, metric.slug)[name] # <<>>
            IN /\ d.present <=> (vals # <<>> /\ has_own)
               /\ d.present =>
                     LET lo == MinOf(vals)
                         hi == MaxOf(vals)
                         discrete == name \in {"bills_sponsored", "debate_speeches"} /\ hi < 20
                     IN /\ Len(d.buckets) = IF discrete THEN hi + 1 ELSE 20
                        /\ \A k \in 0..(Len(d.buckets) - 1) :
                              d.buckets[k + 1] =
                                  Cardinality({i \in DOMAIN vals :
                                      IF discrete THEN vals[i] = k
                                      ELSE InBin(vals[i], k, lo, hi, 20)})
                        /\ SumOf(d.buckets) = Len(vals)
                        /\ d.mp_bucket \in 0..(Len(d.buckets) - 1)
                        /\ d.buckets[d.mp_bucket + 1] > 0

\* C29 witness: counts with maximum 3 in exactly 4 buckets, and values
\* spanning [20, 100] in 20 bins with the subject in the last one.
C29_Witness ==
    /\ Distributed
    /\ metric.out["bills_sponsored"].present
    /\ Len(metric.out["bills_sponsored"].buckets) = 4
    /\ metric.out["party_loyalty"].present
    /\ metric.out["party_loyalty"].lo = 20 /\ metric.out["party_loyalty"].hi = 100
    /\ Len(metric.out["party_loyalty"].buckets) = 20
    /\ metric.out["party_loyalty"].mp_bucket = 19

Attended == metric.fn = "compute_attendance" /\ metric.done

\* C30: compute_attendance is the number of Yes and No ballots over the
\* number of eligible session votes, times 100 and rounded to one decimal
\* (here in tenths of a percent); Paired and Didn't vote ballots add
\* nothing, and the result is 0.0 when there is no eligible vote.
C30_AttendanceFormula ==
    Attended =>
        LET eligible == Cardinality({i \in DOMAIN metric.session_votes :
                            metric.start_date = <<>>
                               \/ metric.session_votes[i] >= metric.start_date[1]})
            cast == Cardinality({i \in DOMAIN metric.ballots :
                            metric.ballots[i] \in {"Yes", "No"}})
            twice_error == 2 * (metric.out * eligible - cast * 1000)
        IN IF eligible = 0
           THEN metric.out = 0
           ELSE twice_error <= eligible /\ -twice_error <= eligible

\* C30 witness: ballots Yes, No, Paired, Didn't vote against 4 eligible
\* votes give 50.0.
C30_Witness ==
    /\ Attended
    /\ metric.ballots = <<"Yes", "No", "Paired", "Didn't vote">>
    /\ Len(metric.session_votes) = 4
    /\ metric.start_date = <<2>>
    /\ \A i \in DOMAIN metric.session_votes : metric.session_votes[i] >= 2
    /\ metric.out = 500

\* ------------------------------------------------- claims: get backoff

\* The response of caller c's request in flight is handled in this step.
Handled(c) == task[c].pc = "http" /\ task'[c].pc # "http"

\* The sleep get() has just asked for.
SleepAsked(c) == task'[c].wake - clock

\* C34: in get, the wait before the next attempt is fixed by the failure
\* kind and the zero-based attempt index: a 429 waits the Retry-After value
\* (60 s when absent) and does not raise, a 502/503/504 waits 5 * 2^attempt
\* seconds, a timeout waits 5 * (attempt + 1) seconds and is re-raised on
\* the final attempt, and any other non-2xx response raises at once.
C34_BackoffByKind ==
    [][\A c \in Callers : Handled(c) =>
          LET r == task'[c].last
              attempt == task[c].attempt
              h == task'[c].header
          IN /\ task'[c].attempt = attempt
             /\ r = "429" =>
                   /\ task'[c].pc = "backoff"
                   /\ SleepAsked(c) = IF h = <<>> THEN 60 ELSE h[1]
             /\ r = "5xx" =>
                   /\ task'[c].pc = "backoff"
                   /\ SleepAsked(c) = 5 * 2^attempt
             /\ r = "timeout" =>
                   IF attempt = 3
                   THEN task'[c].pc = "raised"
                   ELSE task'[c].pc = "backoff" /\ SleepAsked(c) = 5 * (attempt + 1)
             /\ r = "4xx" => task'[c].pc = "raised"
             /\ r = "ok" => task'[c].pc = "returned"]_vars

\* ------------------------------------------------ claims: progress file

\* A process starts and loads the progress file in this step: the task at
\* its first lines, the script once its shared fetches have succeeded (it
\* has not been interrupted, and both shared records are fresh).
TaskLoads == pc \in Stopped /\ budget'.runs < budget.runs /\ pc' # "s_shared"
ScriptLoads ==
    /\ pc = "s_shared" /\ pc' \notin {"s_shared", "s_interrupted"}
    /\ cache'[<<"list", 0>>] = "fresh" /\ cache'[<<"votes", 0>>] = "fresh"

\* C40: if the progress file is missing, truncated by a crash in mid-write,
\* or otherwise unreadable when a process starts, the orchestrator takes it
\* as empty progress (nothing completed or failed, rankings_complete false)
\* and goes on with the run instead of failing.
C40_DamagedProgressIsEmpty ==
    [][((TaskLoads \/ ScriptLoads) /\ status_file.content # "json") =>
          /\ completed' = {} /\ failed' = {}
          /\ loaded'.completed_slugs = {} /\ loaded'.failed_slugs = {}
          /\ ~loaded'.rankings_complete
          /\ pc' \in {"shared", "s_pass"}]_vars

\* C40 witness: a second run is in its pass on a truncated progress file
\* that an earlier run had written, with nothing completed or failed.
C40_Witness ==
    /\ pc \in {"pass", "s_pass"}
    /\ idx = 0
    /\ budget.runs = 0
    /\ status_file.content = "truncated"
    /\ completed = {} /\ failed = {}
    /\ Len(remaining) = Len(politicians)
    /\ \E s \in Range(politicians) : cache[<<"ballots", s>>] = "fresh"

\* C36: an entity recorded in failed is skipped by the per-entity pass of
\* every later run: it is not in the run's remaining list, the pass sends no
\* request for it, it stays in failed and never enters completed, in memory
\* and in the progress file, also when no fetch fails any more.
C36_FailedNeverRetried ==
    /\ [](\A s \in loaded.failed_slugs :
            /\ s \in failed /\ s \notin completed
            /\ s \notin Range(remaining)
            /\ \A r \in net : ~(r[1] = "pass" /\ r[3] = s))
    /\ [][\A s \in status_file.failed_slugs :
            s \in status_file'.failed_slugs /\ s \notin status_file'.completed_slugs]_vars

\* C36 witness: a run that loaded a failed entity has ended its pass, in
\* which it fetched other entities and no fetch failed, and has saved.
C36_Witness ==
    /\ pc \in {"rank_shared", "s_rank_shared", "s_done"}
    /\ loaded.failed_slugs # {}
    /\ budget.fail = 0
    /\ hist.raised = {}
    /\ \E r \in net : r[1] = "pass"
    /\ status_file.failed_slugs = loaded.failed_slugs
    /\ status_file.completed_slugs # loaded.completed_slugs

\* ------------------------------------------------ claims: party loyalty

Loyal == metric.fn = "compute_party_loyalty" /\ metric.done

\* The entity's ballots that count towards loyalty: not paired, on a vote
\* whose detail carries the party's position and that is not a free vote.
AttributableBallots ==
    {i \in DOMAIN metric.ballots :
        /\ metric.ballots[i].vote # 0
        /\ metric.ballots[i].ballot # "Paired"
        /\ metric.vote_detail[metric.ballots[i].vote] \in {"Yes", "No"}}

\* C32: for a non-independent entity, compute_party_loyalty returns absent
\* whenever the number of attributable ballots is zero (no ballots at all,
\* only paired ballots, only free votes, or no vote detail carrying the
\* party's position).
C32_NoAttributableIsAbsent ==
    (Loyal /\ metric.politician_party = "Liberal" /\ AttributableBallots = {}) =>
        metric.out = <<>>

\* C33: compute_party_loyalty returns absent for an entity whose party is
\* Independent, for any ballot list, and then does not call
\* fetch_vote_details_batch, so that no vote detail is fetched and no
\* request is dispatched.
C33_IndependentIsAbsent ==
    (Loyal /\ metric.politician_party = "Independent") =>
        metric.out = <<>> /\ ~metric.batch

\* C33 witness: an Independent with a Yes ballot on a vote on which a
\* party position is recorded.
C33_Witness ==
    /\ Loyal
    /\ metric.politician_party = "Independent"
    /\ AttributableBallots # {}
    /\ metric.out = <<>> /\ ~metric.batch

\* compute_single_mp_metrics has returned its record.
Computed == remote # <<>> /\ metric.pc = "done"

\* C31: every attendance value placed in a rankings-table record or a card
\* summary lies in 0..100 (0..1000 tenths), for every pair of ballots
\* record and session-vote-list record that the fetchers can leave in the
\* cache.
C31_AttendanceInRange == Computed => metric.attendance \in 0..1000

\* A rankings table has just been written.
TableWritten == hist.table_written

\* The computation of the entity's metrics raises in this step: a record
\* it had to fetch is still not readable afterwards.
MetricsRaise(s) ==
    \E r \in MetricNeeds(s) : cache'[<<RecordOf(r), s>>] # "fresh"

\* An iteration of build_rankings_table's loop.
BuildStep == pc \in {"rank", "s_rank"} /\ table' # table

\* C38: every rankings table written by build_rankings_table satisfies
\* computed_mps + number of failed_slugs = total_mps, its metrics hold
\* exactly one record per successfully computed entity of the list, and no
\* entity is both in metrics and in failed_slugs; an entity whose metric
\* computation raises is listed in failed_slugs and never aborts the build.
C38_TableCounts ==
    /\ [](TableWritten =>
            /\ table.computed_mps + Len(table.failed_slugs) = table.total_mps
            /\ table.total_mps = Len(politicians)
            /\ table.computed_mps = Len(table.metrics)
            /\ Range(table.metrics) \cap Range(table.failed_slugs) = {}
            /\ Range(table.metrics) \cup Range(table.failed_slugs) = Range(politicians)
            /\ Cardinality(Range(table.metrics)) = Len(table.metrics))
    /\ [][BuildStep =>
            LET s == politicians[idx + 1]
            IN /\ MetricsRaise(s) => table'.failed_slugs = Append(table.failed_slugs, s)
               /\ ~MetricsRaise(s) => table'.metrics = Append(table.metrics, s)
               /\ pc' \in {"rank", "s_rank", "cards", "s_cards"}]_vars

\* C38 witness: a table is written in which one entity was computed and the
\* computation of another raised.
C38_Witness ==
    /\ TableWritten
    /\ table.metrics # <<>>
    /\ table.failed_slugs # <<>>
    /\ table.computed_mps + Len(table.failed_slugs) = table.total_mps

\* The run has reached Complete: the card stage is over and the progress
\* file says so.
RunComplete == pc = "complete" \/ (pc = "s_done" /\ hist.cards_finished)

\* The run is in its card stage.
CachingCards == pc \in {"cards", "s_cards"}

C37_CardsKeptWhileFlagged ==
    [][status_file.rankings_complete /\ status_file'.rankings_complete =>
            CardsIn(cache) \subseteq CardsIn(cache')]_vars

\* paginate goes from one request to the next.
NextRequest == pager.pc = "get" /\ pager'.pc = "get" /\ pager' # pager

\* C39: paginate requests a strictly increasing sequence of offsets, so a
\* call terminates for every sequence of successful responses: a next-page
\* indicator that repeats an offset already requested cannot make it loop
\* forever.
C39_OffsetsIncrease == [][NextRequest => pager'.offset > pager.offset]_vars

====
